---- MODULE Spec2Model ----
(***************************************************************************)
(* Verification model of Lhcfl/ai-tg-bot.                                  *)
(*                                                                         *)
(*   SpecStream : streamToTelegramText (src/src/modules/ai/stream.ts)      *)
(*                driven by the AI message handler's onUpdate callback.    *)
(*   SpecCache  : MessageCache (src/src/lib/message-cache.ts).             *)
(*   SpecWindow : the message handler's context window (message_window     *)
(*                mapper and context slice) over the MessageCache.         *)
(*   SpecRules  : the auto-reply handler over the execs table.             *)
(*   SpecRemove : /removeexec and /removememory.                           *)
(*   SpecBatch  : registerCommand over the exec blocks of a response.      *)
(*   SpecTools  : reply_after and its timers (SpecToolsFair: with a fair   *)
(*                clock and event loop).                                   *)
(*   SpecRegister : auto_reply and remember called by concurrent handlers. *)
(*   SpecUpstream : SpecStream with chunks of type "error".                *)
(*   SpecMemories : getMemories over the memories table.                   *)
(*   SpecChats  : the cache, rules, memories and removal commands of two   *)
(*                chats served by one process.                             *)
(*   SpecStored : the auto-reply handler over rows the database file       *)
(*                already holds.                                           *)
(*   SpecKV     : setChatKV calls on the chat_kvs table.                   *)
(*   SpecContext : Context.use and Context.freeze.                         *)
(*   SpecCached : cached(): get, invalidate and the expiry timers.         *)
(*                                                                         *)
(* Strings are sequences of one-character strings, so that length, trim,   *)
(* replaceAll and concatenation are computed as the code computes them.    *)
(***************************************************************************)
EXTENDS Integers, Sequences, FiniteSets, TLC

VARIABLES
    \* ---- streamToTelegramText locals (stream.ts:96-102) ----
    aborted, currentReasoning, currentText, currentTool, toolHistory,
    lastSentText, lastEditTime,
    now, textToSend,        \* loop locals (stream.ts:165-166)
    show_reasoning,         \* config.show_reasoning
    pc,                     \* position of streamToTelegramText
    remaining,              \* chunks stream.fullStream has still to yield
    consumed,               \* number of chunks the loop has taken so far
    clock,                  \* Date.now()
    deliveries,             \* history of the onUpdate calls
    handler,                \* position of the message handler around the call
    apologies,              \* "Sorry, an error occurred ..." messages sent
    errorParts,             \* chunks of type "error" the loop has taken so far
    memories,               \* the last getMemories call: chat, result, table read
    \* ---- MessageCache fields (message-cache.ts:14-15) ----
    cache, maxWindow,
    \* ---- history of the cache operations ----
    lastOp, added,
    \* ---- message handler (part_005:842-1039) ----
    config,                 \* max_message_window, chat_allow_list
    kv,                     \* chat_kvs rows with key "message_window", by chat
    hpc, hmsg,              \* per in-flight handler: position, msg
    message_window,         \* the mapped window
    cachedMessages,         \* the context slice
    nextId,                 \* message_id of the next incoming message
    \* ---- tables of the AI module (tools.ts:73-85) ----
    execsTable,             \* rows of the execs table, in rowid order
    memoriesTable,          \* rows of the memories table, in rowid order
    sqlite_sequence,        \* per table, the largest id AUTOINCREMENT has given
    \* ---- AUTO REPLY handler (part_005:644-668) ----
    enable_auto_reply,      \* the chat's enable_auto_reply row of chat_kvs
    arpc,                   \* position of the handler
    armsg,                  \* msg
    execsArr,               \* the parsed rules read by getExecs
    ari,                    \* index of the loop over execsArr
    replies,                \* bot.sendMessage calls made for msg
    incoming,               \* number of messages received so far
    \* ---- removeexec and removememory commands (part_005:704-762, 797-839) ----
    rm,                     \* per command in flight: position, msg.chat.id, idStr
    removes,                \* number of commands received so far
    \* ---- tool calls (tools.ts:111-162) and timers ----
    th,                     \* per message handler in flight: position, msg
    inbox,                  \* the messages received, by message_id
    timers,                 \* the setTimeout callbacks registered
    outbox,                 \* bot.sendMessage calls of the tools and timers
    tclock,                 \* Date.now() of the timer specification
    registered,             \* auto_reply.execute calls that returned "ok"
    \* ---- registerCommand (part_002:148-202) ----
    batch,                  \* the exec blocks of the response
    tasks,                  \* per block: position of its async task, notice
    \* ---- chat_kvs (kv/index.ts:5-38) ----
    chatKVs,                \* rows of the chat_kvs table, in rowid order
    kvCalls,                \* per setChatKV call in flight: position, key, value
    \* ---- Context (bot-proxy.ts:13-92) ----
    context,                \* frozen, plugins, the loop of freeze, its outcome
    \* ---- cached (cache.ts:5-33) ----
    cachedFn                \* cache, timeoutId, the get calls in flight

streamVars == <<aborted, currentReasoning, currentText, currentTool, toolHistory,
                lastSentText, lastEditTime, now, textToSend, show_reasoning, pc,
                remaining, consumed, clock, deliveries, handler, apologies>>
cacheVars == <<cache, maxWindow>>
opVars == <<lastOp, added>>
handlerVars == <<config, kv, hpc, hmsg, message_window, cachedMessages, nextId>>
tableVars == <<execsTable, memoriesTable, sqlite_sequence>>
ruleVars == <<enable_auto_reply, arpc, armsg, execsArr, ari, replies, incoming>>
removeVars == <<rm, removes>>
toolVars == <<th, inbox, timers, outbox, tclock, registered>>
batchVars == <<batch, tasks>>
upstreamVars == <<errorParts>>
libVars == <<chatKVs, kvCalls, context, cachedFn>>
readVars == <<memories, libVars>>
extVars == <<tableVars, ruleVars, removeVars, toolVars, batchVars, upstreamVars,
             readVars>>
coreVars == <<streamVars, cacheVars, opVars, handlerVars, upstreamVars, readVars>>
outsideRules == <<coreVars, removeVars, toolVars, batchVars>>
vars == <<streamVars, cacheVars, opVars, handlerVars, extVars>>

----------------------------------------------------------------------------
(* Bounds of the model *)

MaxEvents == 3          \* longest event sequence a stream yields
MaxTicks == 2           \* clock advances explored per generation
Epoch0 == 100000        \* Date.now() when the generation starts
MaxAdds == 4            \* accepted addMessage calls explored
MaxWin == 3             \* largest window value explored
MaxMsgs == 3            \* incoming messages explored by the handler

TickMs == 3000          \* granularity of the modelled clock

(* Program constants *)

GrowthGate == 50        \* "Send every 50 new characters"
TimeGate == 6000        \* "Edit every 6 seconds"

----------------------------------------------------------------------------
(* Strings *)

Min(a, b) == IF a < b THEN a ELSE b
Max(a, b) == IF a > b THEN a ELSE b

Whitespace == {" ", "\n", "\t"}

RECURSIVE TrimStart(_)
TrimStart(s) ==
    IF s # <<>> /\ Head(s) \in Whitespace THEN TrimStart(Tail(s)) ELSE s

RECURSIVE TrimEnd(_)
TrimEnd(s) ==
    IF s # <<>> /\ s[Len(s)] \in Whitespace
    THEN TrimEnd(SubSeq(s, 1, Len(s) - 1)) ELSE s

\* String.prototype.trim
Trim(s) == TrimEnd(TrimStart(s))

\* reasoning.replaceAll("\n", "\n> ")
RECURSIVE ReplaceAllNewline(_)
ReplaceAllNewline(s) ==
    IF s = <<>> THEN <<>>
    ELSE IF Head(s) = "\n"
         THEN <<"\n", ">", " ">> \o ReplaceAllNewline(Tail(s))
         ELSE <<Head(s)>> \o ReplaceAllNewline(Tail(s))

Repeat(c, n) == [i \in 1..n |-> c]

Redacted == <<"[", "R", "E", "D", "A", "C", "T", "E", "D", "]">>
Placeholder == <<"(", ".", ".", ".", ")">>
QuotePrefix == <<">", " ">>
\* "bt" is the backtick character
FenceOpen == <<"\n", "bt", "bt", "bt", "j", "s", "o", "n", "\n">>
FenceClose == <<"\n", "bt", "bt", "bt">>
\* the banner literal of tool-input-start: newline, "(", six CJK characters
\* (named by code point), ":", " "
ToolBanner == <<"\n", "(", "u6b63", "u5728", "u4f7f", "u7528", "u5de5", "u5177",
                ":", " ">>
\* String(undefined), what "undefined += delta" starts from
UndefinedStr == <<"u", "n", "d", "e", "f", "i", "n", "e", "d">>

----------------------------------------------------------------------------
(* MessageCache (src/src/lib/message-cache.ts) *)

Chats == {1, 2}
MeId == 99              \* me.id, the bot's own user id

\* this.cache.get(chatId) || []
getMessages(c, chatId) == IF chatId \in DOMAIN c THEN c[chatId] ELSE <<>>

\* Map.prototype.set
MapSet(c, chatId, messages) ==
    [k \in DOMAIN c \cup {chatId} |-> IF k = chatId THEN messages ELSE c[k]]

\* Map.prototype.delete
MapDelete(c, chatId) == [k \in DOMAIN c \ {chatId} |-> c[k]]

\* !message.from || !message.text
\* (an absent field of the message object is an absent field of the record)
Rejected(message) ==
    \/ "from" \notin DOMAIN message
    \/ "text" \notin DOMAIN message
    \/ message.text = <<>>

\* Array.prototype.slice(-n): the last n for n > 0; slice(-0) is slice(0),
\* the whole array; for n < 0 it is slice(|n|), all but the first |n|
SliceNeg(messages, n) ==
    IF n > 0 THEN SubSeq(messages, Max(1, Len(messages) - n + 1), Len(messages))
    ELSE IF n = 0 THEN messages
    ELSE SubSeq(messages, Min(Len(messages), 0 - n) + 1, Len(messages))

\* a slip that evicts the newest entry instead of the oldest
addMessageEvictNewest(c, w, chatId, message) ==
    IF Rejected(message) THEN c
    ELSE LET cachedMsg == [message_id |-> message.message_id,
                           from_id |-> message.from,
                           text |-> message.text]
             pushed == Append(getMessages(c, chatId), cachedMsg)
             messages == IF Len(pushed) > w
                         THEN SubSeq(pushed, 1, Len(pushed) - 1) ELSE pushed
         IN MapSet(c, chatId, messages)

\* a slip that makes room in a full buffer before looking at the message
addMessageEvictFirst(c, w, chatId, message) ==
    IF Rejected(message)
    THEN IF chatId \in DOMAIN c /\ Len(c[chatId]) >= w /\ c[chatId] # <<>>
         THEN MapSet(c, chatId, Tail(c[chatId])) ELSE c
    ELSE LET cachedMsg == [message_id |-> message.message_id,
                           from_id |-> message.from,
                           text |-> message.text]
             pushed == Append(getMessages(c, chatId), cachedMsg)
             messages == IF Len(pushed) > w THEN Tail(pushed) ELSE pushed
         IN MapSet(c, chatId, messages)

\* addMessage: push, then one shift when the length exceeds maxWindow
addMessage(c, w, chatId, message) ==
    IF Rejected(message) THEN c
    ELSE LET cachedMsg == [message_id |-> message.message_id,
                           from_id |-> message.from,
                           text |-> message.text]
             pushed == Append(getMessages(c, chatId), cachedMsg)
             messages == IF Len(pushed) > w THEN Tail(pushed) ELSE pushed
         IN MapSet(c, chatId, messages)

\* setMaxWindow: trims every chat whose buffer is longer than maxWindow
setMaxWindow(c, w) ==
    [k \in DOMAIN c |-> IF Len(c[k]) > w THEN SliceNeg(c[k], w) ELSE c[k]]

----------------------------------------------------------------------------
(* streamToTelegramText (src/src/modules/ai/stream.ts:88-179) *)

ToolNames == {"f", "g"}

\* obj[key] = value on a Record<string, string>
ObjSet(obj, key, value) ==
    [k \in DOMAIN obj \cup {key} |-> IF k = key THEN value ELSE obj[k]]

Long == Repeat("a", GrowthGate)

\* payloads of the chunks the generation service may yield
ReasoningTexts == {<<" ", "r", "\n", "q", " ">>, Redacted, <<" ">>}
TextTexts == {<<"x">>, Long, Placeholder}
ToolDeltas == {<<"{", "}">>, Long}

\* generateTextToSend (stream.ts:104-119)
\* a slip that forgets the redaction sentinel
ReasoningBlockShowsRedacted(reasoningBuf, show) ==
    LET reasoning == Trim(reasoningBuf) IN
    IF reasoning # <<>> /\ show
    THEN QuotePrefix \o ReplaceAllNewline(reasoning) \o <<"\n", "\n">>
    ELSE <<>>

\* the quoted reasoning block (stream.ts:106-111)
ReasoningBlock(reasoningBuf, show) ==
    LET reasoning == Trim(reasoningBuf) IN
    IF reasoning # <<>> /\ reasoning # Redacted /\ show
    THEN QuotePrefix \o ReplaceAllNewline(reasoning) \o <<"\n", "\n">>
    ELSE <<>>

\* the fenced block of the active tool's raw arguments (stream.ts:113-117)
ToolBlock(tool, history) ==
    IF tool # ""
    THEN FenceOpen
         \o (IF tool \in DOMAIN history THEN history[tool] ELSE UndefinedStr)
         \o FenceClose
    ELSE <<>>

\* a slip that drops the placeholder fallback
generateTextToSendNoPlaceholder(reasoningBuf, text, tool, history, show) ==
    ReasoningBlock(reasoningBuf, show) \o text \o ToolBlock(tool, history)

generateTextToSend(reasoningBuf, text, tool, history, show) ==
    LET txt == ReasoningBlock(reasoningBuf, show) \o text \o ToolBlock(tool, history)
    IN IF txt = <<>> THEN Placeholder ELSE txt

\* a slip that opens the gate on either condition
GateOpenEither(t, sent, nowMs, lastEdit) ==
    Len(t) - Len(sent) >= GrowthGate \/ nowMs - lastEdit >= TimeGate

\* the throttle gate (stream.ts:168-171)
GateOpen(t, sent, nowMs, lastEdit) ==
    Len(t) - Len(sent) >= GrowthGate /\ nowMs - lastEdit >= TimeGate

Call(text, final) == [text |-> text, final |-> final, at |-> clock, result |-> "pending"]

\* the messages the handler works on while it streams: chat 1, the reply
\* placeholder message sentMessage has id 1
StreamChat == 1
SentMessageId == 1

\* a slip that forgets the break
LoopExitNever(ab) == FALSE

\* if (aborted) break (stream.ts:163)
LoopExit(ab) == ab

\* after the switch: "if (aborted) break" leaves the loop for the final
\* onUpdate (stream.ts:163, 178); otherwise the gate decides (stream.ts:165-176)
AfterSwitch(ab, r, t, tool, h) ==
    LET txt == generateTextToSend(r, t, tool, h, show_reasoning) IN
    /\ aborted' = ab
    /\ currentReasoning' = r
    /\ currentText' = t
    /\ currentTool' = tool
    /\ toolHistory' = h
    /\ remaining' = remaining - 1
    /\ consumed' = consumed + 1
    /\ IF LoopExit(ab)
       THEN /\ pc' = "final"
            /\ deliveries' = Append(deliveries, Call(txt, TRUE))
            /\ UNCHANGED <<now, textToSend>>
       ELSE /\ now' = clock
            /\ textToSend' = txt
            /\ IF GateOpen(txt, lastSentText, clock, lastEditTime)
               THEN /\ pc' = "deliver"
                    /\ deliveries' = Append(deliveries, Call(txt, FALSE))
               ELSE /\ pc' = "loop"
                    /\ UNCHANGED deliveries
    /\ UNCHANGED <<lastSentText, lastEditTime, show_reasoning, clock, handler,
                   apologies, cacheVars, opVars, handlerVars>>

\* a slip that calls onUpdate without awaiting it
CanTakeWhilePending == pc \in {"loop", "deliver"} /\ remaining > 0

CanTake == pc = "loop" /\ remaining > 0

\* case "abort"
ChunkAbort ==
    /\ CanTake
    /\ AfterSwitch(TRUE, currentReasoning, currentText, currentTool, toolHistory)
    /\ UNCHANGED extVars

\* case "reasoning-delta"
ChunkReasoningDelta ==
    /\ CanTake
    /\ \E text \in ReasoningTexts :
         AfterSwitch(aborted, currentReasoning \o text, currentText, currentTool,
                     toolHistory)
    /\ UNCHANGED extVars

\* case "text-delta"
ChunkTextDelta ==
    /\ CanTake
    /\ \E text \in TextTexts :
         AfterSwitch(aborted, currentReasoning, currentText \o text, currentTool,
                     toolHistory)
    /\ UNCHANGED extVars

\* case "tool-input-start"
ChunkToolInputStart ==
    /\ CanTake
    /\ \E toolName \in ToolNames :
         AfterSwitch(aborted, currentReasoning,
                     currentText \o ToolBanner \o <<toolName>> \o <<")">>,
                     toolName, ObjSet(toolHistory, toolName, <<>>))
    /\ UNCHANGED extVars

\* case "tool-input-delta": toolHistory[currentTool] += chunk.delta
ChunkToolInputDelta ==
    /\ CanTake
    /\ \E delta \in ToolDeltas :
         LET old == IF currentTool \in DOMAIN toolHistory
                    THEN toolHistory[currentTool] ELSE UndefinedStr
         IN AfterSwitch(aborted, currentReasoning, currentText, currentTool,
                        ObjSet(toolHistory, currentTool, old \o delta))
    /\ UNCHANGED extVars

\* case "tool-input-end"
ChunkToolInputEnd ==
    /\ CanTake
    /\ AfterSwitch(aborted, currentReasoning, currentText, "", toolHistory)
    /\ UNCHANGED extVars

\* case "tool-call", case "start-step" and default: nothing but logging
ChunkOther ==
    /\ CanTake
    /\ AfterSwitch(aborted, currentReasoning, currentText, currentTool, toolHistory)
    /\ UNCHANGED extVars

\* a chunk of type "error": the stream reports that the generation failed.
\* No case names it, so the default case logs it (stream.ts:158-160)
ChunkError ==
    /\ CanTake
    /\ AfterSwitch(aborted, currentReasoning, currentText, currentTool, toolHistory)
    /\ errorParts' = errorParts + 1
    /\ UNCHANGED <<tableVars, ruleVars, removeVars, toolVars, batchVars, readVars>>

\* a slip that sends the last delivered snapshot instead of a fresh render
StreamEndStale ==
    /\ pc = "loop"
    /\ remaining = 0
    /\ pc' = "final"
    /\ deliveries' = Append(deliveries, Call(lastSentText, TRUE))
    /\ UNCHANGED <<aborted, currentReasoning, currentText, currentTool, toolHistory,
                   lastSentText, lastEditTime, now, textToSend, show_reasoning,
                   remaining, consumed, clock, handler, apologies,
                   cacheVars, opVars, handlerVars>>
    /\ UNCHANGED extVars

\* the for-await loop ends with the stream: the final onUpdate (stream.ts:178)
StreamEnd ==
    /\ pc = "loop"
    /\ remaining = 0
    /\ pc' = "final"
    /\ deliveries' = Append(deliveries,
                            Call(generateTextToSend(currentReasoning, currentText,
                                                    currentTool, toolHistory,
                                                    show_reasoning), TRUE))
    /\ UNCHANGED <<aborted, currentReasoning, currentText, currentTool, toolHistory,
                   lastSentText, lastEditTime, now, textToSend, show_reasoning,
                   remaining, consumed, clock, handler, apologies,
                   cacheVars, opVars, handlerVars>>
    /\ UNCHANGED extVars

\* the stream itself rejects: the for-await throws out of the function and
\* the handler's catch sends the apology (part_005:1031-1037)
StreamError ==
    /\ CanTake
    /\ pc' = "thrown"
    /\ handler' = "caught"
    /\ apologies' = apologies + 1
    /\ UNCHANGED <<aborted, currentReasoning, currentText, currentTool, toolHistory,
                   lastSentText, lastEditTime, now, textToSend, show_reasoning,
                   remaining, consumed, clock, deliveries,
                   cacheVars, opVars, handlerVars>>
    /\ UNCHANGED extVars

SetResult(ds, r) == [ds EXCEPT ![Len(ds)].result = r]

\* a non-final onUpdate resolves (stream.ts:172-174)
DeliverResolve ==
    /\ pc = "deliver"
    /\ deliveries' = SetResult(deliveries, "ok")
    /\ lastSentText' = textToSend
    /\ lastEditTime' = now
    /\ pc' = "loop"
    /\ UNCHANGED <<aborted, currentReasoning, currentText, currentTool, toolHistory,
                   now, textToSend, show_reasoning, remaining, consumed, clock,
                   handler, apologies, cacheVars, opVars, handlerVars>>
    /\ UNCHANGED extVars

\* a non-final onUpdate rejects (bot.editMessageText throws, part_005:1014):
\* nothing catches it in the loop, so it leaves streamToTelegramText and
\* reaches the handler's catch (part_005:1031-1037)
DeliverReject ==
    /\ pc = "deliver"
    /\ deliveries' = SetResult(deliveries, "failed")
    /\ pc' = "thrown"
    /\ handler' = "caught"
    /\ apologies' = apologies + 1
    /\ UNCHANGED <<aborted, currentReasoning, currentText, currentTool, toolHistory,
                   lastSentText, lastEditTime, now, textToSend, show_reasoning,
                   remaining, consumed, clock, cacheVars, opVars, handlerVars>>
    /\ UNCHANGED extVars

\* the final onUpdate resolves: the callback caches the reply
\* (part_005:1020-1028) and streamToTelegramText returns
FinalResolve ==
    /\ pc = "final"
    /\ deliveries' = SetResult(deliveries, "ok")
    /\ cache' = addMessage(cache, maxWindow, StreamChat,
                           [message_id |-> SentMessageId, from |-> MeId,
                            text |-> deliveries[Len(deliveries)].text])
    /\ pc' = "done"
    /\ handler' = "returned"
    /\ UNCHANGED <<aborted, currentReasoning, currentText, currentTool, toolHistory,
                   lastSentText, lastEditTime, now, textToSend, show_reasoning,
                   remaining, consumed, clock, apologies, maxWindow, opVars,
                   handlerVars>>
    /\ UNCHANGED extVars

\* a slip that swallows the rejection of the final onUpdate
FinalRejectSwallowed ==
    /\ pc = "final"
    /\ deliveries' = SetResult(deliveries, "failed")
    /\ pc' = "done"
    /\ handler' = "returned"
    /\ UNCHANGED <<aborted, currentReasoning, currentText, currentTool, toolHistory,
                   lastSentText, lastEditTime, now, textToSend, show_reasoning,
                   remaining, consumed, clock, apologies, cacheVars, opVars,
                   handlerVars>>
    /\ UNCHANGED extVars

\* the final onUpdate rejects: the rejection leaves streamToTelegramText
\* (stream.ts:178) and reaches the handler's catch (part_005:1031-1037)
FinalReject ==
    /\ pc = "final"
    /\ deliveries' = SetResult(deliveries, "failed")
    /\ pc' = "thrown"
    /\ handler' = "caught"
    /\ apologies' = apologies + 1
    /\ UNCHANGED <<aborted, currentReasoning, currentText, currentTool, toolHistory,
                   lastSentText, lastEditTime, now, textToSend, show_reasoning,
                   remaining, consumed, clock, cacheVars, opVars, handlerVars>>
    /\ UNCHANGED extVars

\* time passes while the function awaits a chunk or a delivery
Tick ==
    /\ pc \in {"loop", "deliver", "final"}
    /\ clock < Epoch0 + MaxTicks * TickMs
    /\ clock' = clock + TickMs
    /\ UNCHANGED <<aborted, currentReasoning, currentText, currentTool, toolHistory,
                   lastSentText, lastEditTime, now, textToSend, show_reasoning, pc,
                   remaining, consumed, deliveries, handler, apologies,
                   cacheVars, opVars, handlerVars>>
    /\ UNCHANGED extVars

\* the message that triggered the generation, cached at part_005:862
TriggerMessage == [message_id |-> 0, from |-> 7, text |-> <<"h", "i">>]

\* values of the variables a specification does not use
IdleLocals ==
    /\ aborted = FALSE /\ currentReasoning = <<>> /\ currentText = <<>>
    /\ currentTool = "" /\ toolHistory = <<>>
    /\ lastSentText = <<>> /\ lastEditTime = 0
    /\ now = 0 /\ textToSend = <<>> /\ show_reasoning = TRUE
    /\ pc = "idle" /\ remaining = 0 /\ consumed = 0 /\ clock = Epoch0
    /\ deliveries = <<>> /\ handler = "idle" /\ apologies = 0
    /\ errorParts = 0
    /\ memories = [read |-> FALSE]
IdleKV == chatKVs = <<>> /\ kvCalls = <<>>
IdleContext == context = [frozen |-> FALSE, pc |-> "open"]
IdleCached == cachedFn = [calls |-> <<>>, now |-> 0]
IdleStream == IdleLocals /\ IdleKV /\ IdleContext /\ IdleCached
IdleOps == lastOp = [op |-> "none", onlyAdds |-> TRUE] /\ added = <<>>
IdleHandler ==
    /\ config = [max_message_window |-> MaxWin, has_allow_list |-> FALSE,
                 chat_allow_list |-> {}]
    /\ kv = <<>> /\ hpc = <<>> /\ hmsg = <<>>
    /\ message_window = <<>> /\ cachedMessages = <<>> /\ nextId = 1
IdleTables ==
    /\ execsTable = <<>> /\ memoriesTable = <<>>
    /\ sqlite_sequence = [execs |-> 0, memories |-> 0]
IdleRules ==
    /\ enable_auto_reply = [defined |-> FALSE, value |-> <<>>]
    /\ arpc = "idle" /\ armsg = <<>> /\ execsArr = <<>> /\ ari = 0
    /\ replies = <<>> /\ incoming = 0
IdleRemove == rm = <<>> /\ removes = 0
IdleTools ==
    /\ th = <<>> /\ inbox = <<>> /\ timers = <<>> /\ outbox = <<>>
    /\ tclock = 0 /\ registered = 0
IdleBatch == batch = [execs |-> <<>>, pc |-> "idle"] /\ tasks = <<>>
IdleExt == IdleTables /\ IdleRules /\ IdleRemove /\ IdleTools /\ IdleBatch

\* the state in which the handler calls streamToTelegramText (part_005:1010):
\* the locals of stream.ts:96-102, the trigger message in the cache
InitStream ==
    /\ aborted = FALSE /\ currentReasoning = <<>> /\ currentText = <<>>
    /\ currentTool = "" /\ toolHistory = <<>>
    /\ lastSentText = <<>> /\ lastEditTime = 0
    /\ now = 0 /\ textToSend = <<>>
    /\ show_reasoning \in BOOLEAN
    /\ pc = "loop"
    /\ remaining \in 0..MaxEvents
    /\ consumed = 0
    /\ clock = Epoch0
    /\ deliveries = <<>>
    /\ handler = "streaming"
    /\ apologies = 0
    /\ errorParts = 0
    /\ memories = [read |-> FALSE]
    /\ IdleKV /\ IdleContext /\ IdleCached
    /\ maxWindow = MaxWin
    /\ cache = addMessage(<<>>, maxWindow, StreamChat, TriggerMessage)
    /\ IdleOps
    /\ IdleHandler
    /\ IdleExt

NextStream ==
    \/ ChunkAbort
    \/ ChunkReasoningDelta
    \/ ChunkTextDelta
    \/ ChunkToolInputStart
    \/ ChunkToolInputDelta
    \/ ChunkToolInputEnd
    \/ ChunkOther
    \/ StreamEnd
    \/ StreamError
    \/ DeliverResolve
    \/ DeliverReject
    \/ FinalResolve
    \/ FinalReject
    \/ Tick

SpecStream == InitStream /\ [][NextStream]_vars

\* streamToTelegramText over a stream that may also report a failure of the
\* generation as a chunk
NextUpstream ==
    \/ ChunkAbort
    \/ ChunkReasoningDelta
    \/ ChunkTextDelta
    \/ ChunkToolInputStart
    \/ ChunkToolInputDelta
    \/ ChunkToolInputEnd
    \/ ChunkOther
    \/ ChunkError
    \/ StreamEnd
    \/ StreamError
    \/ DeliverResolve
    \/ DeliverReject
    \/ FinalResolve
    \/ FinalReject
    \/ Tick

SpecUpstream == InitStream /\ [][NextUpstream]_vars

----------------------------------------------------------------------------
(* Claims about streamToTelegramText *)

Finals == {i \in DOMAIN deliveries : deliveries[i].final}
NonFinals == {i \in DOMAIN deliveries : ~deliveries[i].final}
Snapshot == generateTextToSend(currentReasoning, currentText, currentTool,
                               toolHistory, show_reasoning)
Terminated == pc \in {"done", "thrown"}

\* C1: when streamToTelegramText has returned (every delivery succeeded),
\* onUpdate was called with final=true exactly once, that call is the last
\* delivery, every earlier call is non-final and succeeded, and its text is
\* the render of the buffers as they stand at the end of the sequence (or at
\* the abort); at no time is there more than one final call.
C1_ExactlyOneFinalDelivery ==
    /\ Cardinality(Finals) <= 1
    /\ \A i \in Finals : i = Len(deliveries)
    /\ pc = "done" =>
         /\ Finals = {Len(deliveries)}
         /\ \A i \in DOMAIN deliveries : deliveries[i].result = "ok"
         /\ deliveries[Len(deliveries)].text = Snapshot
         /\ aborted \/ remaining = 0

C1_Witness ==
    /\ pc = "done"
    /\ consumed >= 2
    /\ Len(deliveries) >= 2
    /\ deliveries[Len(deliveries)].text # deliveries[1].text

\* the non-final delivery before delivery i (0 when i is the first)
PrevNonFinal(i) ==
    IF \E j \in NonFinals : j < i
    THEN CHOOSE j \in NonFinals : j < i /\ \A k \in NonFinals : k < i => k <= j
    ELSE 0

FailedNonFinal ==
    \E i \in NonFinals : deliveries[i].result = "failed"

\* C3: a failed non-final delivery does not abort the response: the handler
\* does not treat it as an error and the function still ends with the final
\* delivery.
C3_NonFinalFailureIsNotFatal ==
    FailedNonFinal =>
        /\ handler # "caught"
        /\ pc # "thrown"
        /\ Terminated => Finals # {}

FailedFinal ==
    \E i \in Finals : deliveries[i].result = "failed"

AssistantCached ==
    \E i \in DOMAIN getMessages(cache, StreamChat) :
        getMessages(cache, StreamChat)[i].from_id = MeId

\* C4: a failed final delivery propagates out of streamToTelegramText: the
\* function has thrown, the handler's catch ran (one apology), and the reply
\* was not cached.
C4_FinalFailurePropagates ==
    FailedFinal =>
        /\ pc = "thrown"
        /\ handler = "caught"
        /\ apologies = 1
        /\ ~AssistantCached

C4_Witness == FailedFinal /\ consumed >= 1

\* C5: once abort is consumed no further chunk is taken (the buffers and the
\* count of consumed chunks stay as they are), and from the abort chunk on
\* every delivery that is made is the final one.
C5_AbortStopsConsumption ==
    [][/\ aborted => UNCHANGED <<currentReasoning, currentText, currentTool,
                                 toolHistory, consumed, remaining>>
       /\ (aborted \/ aborted') =>
            \A i \in DOMAIN deliveries' :
                i > Len(deliveries) => deliveries'[i].final]_vars

C5_Witness ==
    /\ aborted
    /\ pc = "done"
    /\ remaining > 0
    /\ NonFinals # {}

AllPartsEmpty ==
    /\ ReasoningBlock(currentReasoning, show_reasoning) = <<>>
    /\ currentText = <<>>
    /\ ToolBlock(currentTool, toolHistory) = <<>>

EmptySequenceDelivery ==
    (consumed = 0 /\ remaining = 0 /\ pc \in {"final", "done", "thrown"}) =>
        /\ Len(deliveries) = 1
        /\ deliveries[1].final
        /\ deliveries[1].text = Placeholder

\* C6 as stated: the snapshot is the placeholder exactly when the three
\* parts are empty.
C6_PlaceholderIffEmpty ==
    /\ EmptySequenceDelivery
    /\ (Snapshot = Placeholder) <=> AllPartsEmpty

\* C6 as amended: an empty event sequence gives one delivery, final, with the
\* placeholder; whenever the three parts are all empty the snapshot (and the
\* text of a delivery made from it) is the placeholder, and otherwise it is
\* the concatenation of the three parts.
C6_PlaceholderWhenEmpty ==
    /\ EmptySequenceDelivery
    /\ AllPartsEmpty => Snapshot = Placeholder
    /\ (AllPartsEmpty /\ pc = "final") =>
          deliveries[Len(deliveries)].text = Placeholder
    /\ ~AllPartsEmpty =>
          Snapshot = ReasoningBlock(currentReasoning, show_reasoning)
                       \o currentText \o ToolBlock(currentTool, toolHistory)

C6_Witness ==
    /\ pc = "done"
    /\ consumed >= 2
    /\ AllPartsEmpty
    /\ currentReasoning # <<>>
    /\ deliveries[Len(deliveries)].text = Placeholder

----------------------------------------------------------------------------
(* MessageCache as a state machine: any sequence of its public calls *)

\* the messages a caller may pass to addMessage
NewMessages(id) ==
    { [message_id |-> id, from |-> 7, text |-> <<"m">>],
      [message_id |-> id, text |-> <<"m">>],
      [message_id |-> id, from |-> 7],
      [message_id |-> id, from |-> 7, text |-> <<>>] }

HistorySize == Len(added)

\* MessageCache.addMessage (message-cache.ts:24-46)
AddMessageCall ==
    /\ HistorySize < MaxAdds
    /\ \E chatId \in Chats, message \in NewMessages(HistorySize + 1) :
         /\ cache' = addMessage(cache, maxWindow, chatId, message)
         /\ lastOp' = [op |-> "addMessage", chatId |-> chatId,
                       message |-> message,
                       accepted |-> ~Rejected(message), before |-> cache,
                       onlyAdds |-> lastOp.onlyAdds]
         /\ added' = Append(added, [chatId |-> chatId, message_id |-> message.message_id,
                                    accepted |-> ~Rejected(message)])
    /\ UNCHANGED <<maxWindow, streamVars, handlerVars>>
    /\ UNCHANGED extVars

\* MessageCache.clearChat (message-cache.ts:58-60)
ClearChatCall ==
    /\ \E chatId \in Chats :
         /\ cache' = MapDelete(cache, chatId)
         /\ lastOp' = [op |-> "clearChat", chatId |-> chatId, before |-> cache,
                       onlyAdds |-> FALSE]
    /\ UNCHANGED <<maxWindow, added, streamVars, handlerVars>>
    /\ UNCHANGED extVars

\* MessageCache.clearAll (message-cache.ts:65-67)
ClearAllCall ==
    /\ cache' = <<>>
    /\ lastOp' = [op |-> "clearAll", before |-> cache, onlyAdds |-> FALSE]
    /\ UNCHANGED <<maxWindow, added, streamVars, handlerVars>>
    /\ UNCHANGED extVars

\* MessageCache.setMaxWindow (message-cache.ts:72-80)
SetMaxWindowCall ==
    /\ \E n \in 0..MaxWin :
         /\ maxWindow' = n
         /\ cache' = setMaxWindow(cache, n)
         /\ lastOp' = [op |-> "setMaxWindow", n |-> n, before |-> cache,
                       onlyAdds |-> FALSE]
    /\ UNCHANGED <<added, streamVars, handlerVars>>
    /\ UNCHANGED extVars

\* createMessageCache(maxWindow) (message-cache.ts:17-19, 83-85)
InitCache ==
    /\ cache = <<>>
    /\ maxWindow \in 0..MaxWin
    /\ lastOp = [op |-> "create", onlyAdds |-> TRUE]
    /\ added = <<>>
    /\ IdleStream
    /\ IdleHandler
    /\ IdleExt

NextCache ==
    \/ AddMessageCall
    \/ ClearChatCall
    \/ ClearAllCall
    \/ SetMaxWindowCall

SpecCache == InitCache /\ [][NextCache]_vars

----------------------------------------------------------------------------
(* Claims about MessageCache *)

\* the last n entries of s, 0 <= n <= Len(s)
LastN(s, n) == SubSeq(s, Len(s) - n + 1, Len(s))

\* C7: every chat's cached buffer holds at most maxWindow messages.
C7_BufferWithinWindow ==
    \A chatId \in DOMAIN cache : Len(cache[chatId]) <= maxWindow

\* the ids of the accepted addMessage calls on chatId, in call order
RECURSIVE AcceptedIds(_, _)
AcceptedIds(h, chatId) ==
    IF h = <<>> THEN <<>>
    ELSE LET rest == AcceptedIds(SubSeq(h, 1, Len(h) - 1), chatId)
             e == h[Len(h)]
         IN IF e.chatId = chatId /\ e.accepted THEN Append(rest, e.message_id)
            ELSE rest

CachedIds(chatId) ==
    [i \in DOMAIN getMessages(cache, chatId) |->
        getMessages(cache, chatId)[i].message_id]

\* no clearChat, clearAll or setMaxWindow has been called
OnlyAdds == lastOp.onlyAdds

\* C8: while only addMessage has been called, getMessages of a chat is the
\* last min(k, W) of the k messages accepted for it, in arrival order.
C8_StrictFifo ==
    OnlyAdds =>
        \A chatId \in Chats :
            LET ids == AcceptedIds(added, chatId) IN
            CachedIds(chatId) = LastN(ids, Min(Len(ids), maxWindow))

C8_Witness ==
    /\ OnlyAdds
    /\ maxWindow = 3
    /\ \E chatId \in Chats :
         /\ Len(AcceptedIds(added, chatId)) = 4
         /\ CachedIds(chatId) = Tail(AcceptedIds(added, chatId))

\* C9: after setMaxWindow(n) every chat's buffer has at most n entries and
\* is the last min(previous length, n) entries of its previous buffer; a chat
\* already within n is not modified.
C9_SetMaxWindowKeepsNewest ==
    lastOp.op = "setMaxWindow" =>
        /\ DOMAIN cache = DOMAIN lastOp.before
        /\ \A chatId \in DOMAIN cache :
             LET old == lastOp.before[chatId] IN
             /\ Len(cache[chatId]) <= lastOp.n
             /\ cache[chatId] = LastN(old, Min(Len(old), lastOp.n))
             /\ Len(old) <= lastOp.n => cache[chatId] = old

\* the message has no text or no identified sender
NoTextOrSender(message) ==
    "text" \notin DOMAIN message \/ "from" \notin DOMAIN message

\* C11: addMessage with a message that has no text or no sender leaves the
\* cache of every chat as it was: nothing is appended, nothing is evicted.
C11_RejectedAddIsNoOp ==
    (lastOp.op = "addMessage" /\ NoTextOrSender(lastOp.message)) =>
        cache = lastOp.before

\* such a call made on a chat whose buffer is full
C11_Witness ==
    /\ lastOp.op = "addMessage"
    /\ NoTextOrSender(lastOp.message)
    /\ maxWindow >= 1
    /\ Len(getMessages(lastOp.before, lastOp.chatId)) = maxWindow
    /\ cache = lastOp.before

----------------------------------------------------------------------------
(* The AI message handler (src/unnamed/part_005:842-1039) *)

Digits == {"0", "1", "2", "3", "4", "5", "6", "7", "8", "9"}

DigitValue(c) ==
    CASE c = "0" -> 0 [] c = "1" -> 1 [] c = "2" -> 2 [] c = "3" -> 3
      [] c = "4" -> 4 [] c = "5" -> 5 [] c = "6" -> 6 [] c = "7" -> 7
      [] c = "8" -> 8 [] c = "9" -> 9

\* the value of the longest prefix of decimal digits, acc the value so far
RECURSIVE DigitsValue(_, _)
DigitsValue(s, acc) ==
    IF s # <<>> /\ Head(s) \in Digits
    THEN DigitsValue(Tail(s), acc * 10 + DigitValue(Head(s)))
    ELSE acc

\* parseInt(str, 10): leading whitespace skipped, an optional sign, then the
\* longest run of digits; NaN when there is no digit
parseInt(str) ==
    LET t == TrimStart(str)
        signed == t # <<>> /\ Head(t) \in {"+", "-"}
        body == IF signed THEN Tail(t) ELSE t
        magnitude == DigitsValue(body, 0)
    IN IF body = <<>> \/ Head(body) \notin Digits
       THEN [nan |-> TRUE, n |-> 0]
       ELSE [nan |-> FALSE,
             n |-> IF signed /\ Head(t) = "-" THEN 0 - magnitude ELSE magnitude]

\* a value read from chat_kvs: the row's value, or undefined (no row)
NoRow == [defined |-> FALSE, value |-> <<>>]
Row(value) == [defined |-> TRUE, value |-> value]

\* a slip that forgets the clamp to the global maximum
messageWindowMapperUnclamped(customWindow, max) ==
    IF customWindow.defined /\ customWindow.value # <<>>
       /\ ~parseInt(customWindow.value).nan /\ parseInt(customWindow.value).n > 0
    THEN parseInt(customWindow.value).n
    ELSE max

\* the message_window mapper (part_005:890-899)
messageWindowMapper(customWindow, max) ==
    IF customWindow.defined /\ customWindow.value # <<>>
    THEN LET parsed == parseInt(customWindow.value) IN
         IF ~parsed.nan /\ parsed.n > 0 THEN Min(parsed.n, max) ELSE max
    ELSE max

\* handler invocations in flight at once, and the chats whose messages arrive
Handlers == {1, 2}
HandlerChats == {1}

\* values /setkv message_window <value> may store
WindowValues ==
    { <<"1">>, <<"0">>, <<"-", "1">>, <<"a", "b">>, <<"1", "2">>, <<" ", "2", "x">> }

MsgKinds == {"nofrom", "nontext", "command", "plain", "mention"}

\* msg.text of an incoming message, by kind
TextOf(kind) ==
    CASE kind = "command" -> <<"/", "s">>
      [] kind = "plain" -> <<"m">>
      [] kind = "mention" -> <<"@", "b">>
      [] kind = "nofrom" -> <<"m">>

\* the text cached for a message without text (part_005:848-850)
NonTextLabel == <<"[", "x", "]">>

NoMsg == [message_id |-> 0, chat |-> 0, kind |-> "none"]

\* the handler returns: its locals are gone
Return(h) ==
    /\ hpc' = [hpc EXCEPT ![h] = "idle"]
    /\ hmsg' = [hmsg EXCEPT ![h] = NoMsg]
    /\ message_window' = [message_window EXCEPT ![h] = 0]
    /\ cachedMessages' = [cachedMessages EXCEPT ![h] = <<>>]

\* the handler's catch (part_005:1031-1037)
Caught(h) ==
    /\ Return(h)
    /\ apologies' = apologies + 1

StreamLocals == <<aborted, currentReasoning, currentText, currentTool, toolHistory,
                  lastSentText, lastEditTime, now, textToSend, show_reasoning, pc,
                  remaining, consumed, clock, deliveries, handler>>

\* a slip that lets commands through
startsWithSlashNever(text) == FALSE

\* msg.text.startsWith("/") (part_005:856)
startsWithSlash(text) == text # <<>> /\ Head(text) = "/"

\* bot.on("message") up to the first await (part_005:842-878)
Receive(h) ==
    /\ hpc[h] = "idle"
    /\ nextId <= MaxMsgs
    /\ \E chatId \in HandlerChats, kind \in MsgKinds :
         LET msg == [message_id |-> nextId, chat |-> chatId, kind |-> kind] IN
         /\ nextId' = nextId + 1
         /\ IF kind = "nofrom"
            THEN UNCHANGED <<cache, hpc, hmsg>>
            ELSE IF kind = "nontext"
            THEN /\ cache' = addMessage(cache, maxWindow, chatId,
                                        [message_id |-> nextId, from |-> 7,
                                         text |-> NonTextLabel])
                 /\ UNCHANGED <<hpc, hmsg>>
            ELSE IF startsWithSlash(TextOf(kind))
            THEN UNCHANGED <<cache, hpc, hmsg>>
            ELSE /\ cache' = addMessage(cache, maxWindow, chatId,
                                        [message_id |-> nextId, from |-> 7,
                                         text |-> TextOf(kind)])
                 /\ hpc' = [hpc EXCEPT ![h] = "kv"]
                 /\ hmsg' = [hmsg EXCEPT ![h] = msg]
    /\ UNCHANGED <<maxWindow, config, kv, message_window, cachedMessages,
                   streamVars, opVars>>
    /\ UNCHANGED extVars

\* the command message "/setkv message_window <value>": the AI handler
\* returns on the "/" (part_005:856-859), the kv module's command stores the
\* value (kv module, setkv and setChatKV)
SetWindowKV ==
    /\ nextId <= MaxMsgs
    /\ nextId' = nextId + 1
    /\ \E chatId \in HandlerChats, value \in WindowValues :
         kv' = MapSet(kv, chatId, value)
    /\ UNCHANGED <<config, hpc, hmsg, message_window, cachedMessages,
                   cacheVars, streamVars, opVars>>
    /\ UNCHANGED extVars

\* the command message "/deletekv message_window" (kv module, deletekv and
\* deleteChatKV)
DeleteWindowKV ==
    /\ nextId <= MaxMsgs
    /\ nextId' = nextId + 1
    /\ \E chatId \in HandlerChats : kv' = MapDelete(kv, chatId)
    /\ UNCHANGED <<config, hpc, hmsg, message_window, cachedMessages,
                   cacheVars, streamVars, opVars>>
    /\ UNCHANGED extVars

Allowed(chatId) == ~config.has_allow_list \/ chatId \in config.chat_allow_list

\* getChatKVs resolves (part_005:872-901); then the condition and, for a
\* mention or reply, the allow list and bot.sendMessage (part_005:903-953)
ReadKVs(h) ==
    /\ hpc[h] = "kv"
    /\ LET chatId == hmsg[h].chat
           read == IF chatId \in DOMAIN kv THEN Row(kv[chatId]) ELSE NoRow
           window == messageWindowMapper(read, config.max_message_window)
           proceed(to) == /\ hpc' = [hpc EXCEPT ![h] = to]
                          /\ message_window' = [message_window EXCEPT ![h] = window]
                          /\ UNCHANGED <<hmsg, cachedMessages>>
       IN IF hmsg[h].kind = "mention"
          THEN IF Allowed(chatId) THEN proceed("send") ELSE Return(h)
          ELSE \/ proceed("aicheck")
               \/ Return(h)
    /\ UNCHANGED <<config, kv, nextId, cacheVars, streamVars, opVars>>
    /\ UNCHANGED extVars

\* the yes/no generateText resolves or throws (part_005:913-937), then the
\* allow list and bot.sendMessage (part_005:940-953)
AiCheck(h) ==
    /\ hpc[h] = "aicheck"
    /\ \/ /\ Allowed(hmsg[h].chat)
          /\ hpc' = [hpc EXCEPT ![h] = "send"]
          /\ UNCHANGED <<hmsg, message_window, cachedMessages>>
       \/ Return(h)
    /\ UNCHANGED <<config, kv, nextId, cacheVars, streamVars, opVars>>
    /\ UNCHANGED extVars

\* bot.sendMessage of the placeholder reply resolves or throws (part_005:949-955)
SendInitial(h) ==
    /\ hpc[h] = "send"
    /\ \/ /\ hpc' = [hpc EXCEPT ![h] = "memories"]
          /\ UNCHANGED <<apologies, hmsg, message_window, cachedMessages>>
       \/ Caught(h)
    /\ UNCHANGED <<StreamLocals, config, kv, nextId, cacheVars, opVars>>
    /\ UNCHANGED extVars

\* getMemories resolves or throws (part_005:955)
GetMemories(h) ==
    /\ hpc[h] = "memories"
    /\ \/ /\ hpc' = [hpc EXCEPT ![h] = "prompt"]
          /\ UNCHANGED <<apologies, hmsg, message_window, cachedMessages>>
       \/ Caught(h)
    /\ UNCHANGED <<StreamLocals, config, kv, nextId, cacheVars, opVars>>
    /\ UNCHANGED extVars

\* getPrompt resolves: the context slice and the call of streamText and
\* streamToTelegramText (part_005:956-1010), or it throws
GetPrompt(h) ==
    /\ hpc[h] = "prompt"
    /\ \/ /\ cachedMessages' =
                [cachedMessages EXCEPT
                    ![h] = SliceNeg(getMessages(cache, hmsg[h].chat),
                                    message_window[h])]
          /\ hpc' = [hpc EXCEPT ![h] = "stream"]
          /\ UNCHANGED <<apologies, hmsg, message_window>>
       \/ Caught(h)
    /\ UNCHANGED <<StreamLocals, config, kv, nextId, cacheVars, opVars>>
    /\ UNCHANGED extVars

\* streamToTelegramText returns after its final onUpdate cached the reply
\* (part_005:1020-1028), or it throws (SpecStream has the steps in between)
StreamSettles(h) ==
    /\ hpc[h] = "stream"
    /\ \/ /\ cache' = addMessage(cache, maxWindow, hmsg[h].chat,
                                 [message_id |-> 100 + hmsg[h].message_id,
                                  from |-> MeId, text |-> <<"r">>])
          /\ Return(h)
          /\ UNCHANGED apologies
       \/ /\ Caught(h)
          /\ UNCHANGED cache
    /\ UNCHANGED <<StreamLocals, config, kv, nextId, maxWindow, opVars>>
    /\ UNCHANGED extVars

\* Ai(ctx): the cache is created with config.max_message_window
\* (part_005:518); no handler is running
InitWindow ==
    /\ \E n \in 0..MaxWin, allow \in {<<FALSE, {}>>, <<TRUE, {1}>>, <<TRUE, {2}>>} :
         config = [max_message_window |-> n, has_allow_list |-> allow[1],
                   chat_allow_list |-> allow[2]]
    /\ maxWindow = config.max_message_window
    /\ cache = <<>>
    /\ kv = <<>>
    /\ hpc = [h \in Handlers |-> "idle"]
    /\ hmsg = [h \in Handlers |-> NoMsg]
    /\ message_window = [h \in Handlers |-> 0]
    /\ cachedMessages = [h \in Handlers |-> <<>>]
    /\ nextId = 1
    /\ IdleStream
    /\ IdleOps
    /\ IdleExt

NextWindow ==
    \/ \E h \in Handlers : Receive(h)
    \/ SetWindowKV
    \/ DeleteWindowKV
    \/ \E h \in Handlers : ReadKVs(h)
    \/ \E h \in Handlers : AiCheck(h)
    \/ \E h \in Handlers : SendInitial(h)
    \/ \E h \in Handlers : GetMemories(h)
    \/ \E h \in Handlers : GetPrompt(h)
    \/ \E h \in Handlers : StreamSettles(h)

SpecWindow == InitWindow /\ [][NextWindow]_vars

----------------------------------------------------------------------------
(* Claims about the context window *)

\* the window the claim states for a raw message_window value
EffectiveWindow(raw) ==
    IF raw.defined /\ ~parseInt(raw.value).nan /\ parseInt(raw.value).n > 0
    THEN Min(parseInt(raw.value).n, config.max_message_window)
    ELSE config.max_message_window

RawWindow(chatId) == IF chatId \in DOMAIN kv THEN Row(kv[chatId]) ELSE NoRow

PastKV(h) == hpc[h] \in {"aicheck", "send", "memories", "prompt", "stream"}

\* C10: the window a handler uses is min(override, max_message_window) when
\* the override it read parses to a positive integer and max_message_window
\* otherwise; the context it passes on is the most recent that-many entries
\* of the chat's cache at that moment, so never more than max_message_window.
C10_ContextWithinWindow ==
    /\ [](\A h \in Handlers :
            /\ PastKV(h) => message_window[h] <= config.max_message_window
            /\ hpc[h] = "stream" =>
                 Len(cachedMessages[h]) <= config.max_message_window)
    /\ [][\A h \in Handlers :
            /\ (hpc[h] = "kv" /\ PastKV(h)') =>
                 message_window'[h] = EffectiveWindow(RawWindow(hmsg[h].chat))
            /\ (hpc[h] = "prompt" /\ hpc'[h] = "stream") =>
                 LET all == getMessages(cache, hmsg[h].chat) IN
                 cachedMessages'[h] = LastN(all, Min(Len(all), message_window[h]))]_vars

C10_Witness ==
    \E h \in Handlers :
        /\ hpc[h] = "stream"
        /\ message_window[h] < config.max_message_window
        /\ Len(getMessages(cache, hmsg[h].chat)) > message_window[h]
        /\ Len(cachedMessages[h]) = message_window[h]
        /\ cachedMessages[h][1].message_id = hmsg[h].message_id

----------------------------------------------------------------------------
(* Auto-reply rules: the AUTO REPLY handler (src/unnamed/part_005:644-668), *)
(* replaceMessage and the auto_reply tool (src/src/modules/ai/tools.ts)     *)

MaxRules == 3           \* rows the execs table may hold
MaxIncoming == 2        \* messages the AUTO REPLY handler receives

RuleChat == 1           \* the chat whose messages arrive
OtherChat == 2

\* msg.from of the incoming messages: with a handle, without one
Bob == [username |-> <<"b", "o", "b">>, first_name |-> <<"B">>]
Ann == [first_name |-> <<"A", "n", "n">>]

UsernamePlaceholder == <<"$", "u", "s", "e", "r", "n", "a", "m", "e">>

StartsWith(s, p) == Len(s) >= Len(p) /\ SubSeq(s, 1, Len(p)) = p

\* String.prototype.replaceAll(p, r) with a string pattern
RECURSIVE replaceAll(_, _, _)
replaceAll(s, p, r) ==
    IF s = <<>> THEN <<>>
    ELSE IF StartsWith(s, p)
         THEN r \o replaceAll(SubSeq(s, Len(p) + 1, Len(s)), p, r)
         ELSE <<Head(s)>> \o replaceAll(Tail(s), p, r)

\* msg.from?.username || msg.from?.first_name, inside a template literal
SenderName(msg) ==
    IF "from" \notin DOMAIN msg THEN UndefinedStr
    ELSE IF "username" \in DOMAIN msg.from /\ msg.from.username # <<>>
         THEN msg.from.username
         ELSE IF "first_name" \in DOMAIN msg.from THEN msg.from.first_name
              ELSE UndefinedStr

\* replaceMessage (tools.ts:100-105)
replaceMessage(msg, template) ==
    replaceAll(template, UsernamePlaceholder, <<"@">> \o SenderName(msg))

\* an entry of a match array: a string, or undefined
Group(s) == [def |-> TRUE, s |-> s]
NoGroup == [def |-> FALSE, s |-> <<>>]

\* the result of String.prototype.match: null, or the array whose entry
\* n + 1 is match[n]
NullMatch == [found |-> FALSE, groups |-> <<>>]
Match(groups) == [found |-> TRUE, groups |-> groups]

\* new RegExp(when, "i") throws a SyntaxError
RegExpThrows(when) == when = "("

\* text.match(new RegExp(when, "i")) for the patterns and texts of the model
RegExpMatch(when, text) ==
    CASE when = "^hi$" /\ text = <<"h", "i">> ->
            Match(<< Group(<<"h", "i">>) >>)
      [] when = "(h)(x)?i" /\ text = <<"h", "i">> ->
            Match(<< Group(<<"h", "i">>), Group(<<"h">>), NoGroup >>)
      [] when = "(h)(x)?i" /\ text = <<"H", "i", "p">> ->
            Match(<< Group(<<"H", "i">>), Group(<<"H">>), NoGroup >>)
      [] OTHER -> NullMatch

\* match[n] || ""
GroupOrEmpty(match, n) ==
    IF n + 1 \in DOMAIN match.groups /\ match.groups[n + 1].def
    THEN match.groups[n + 1].s
    ELSE <<>>

\* the length of the longest prefix of decimal digits
RECURSIVE DigitRun(_)
DigitRun(s) ==
    IF s # <<>> /\ Head(s) \in Digits THEN 1 + DigitRun(Tail(s)) ELSE 0

\* a slip that leaves the placeholder of a missing group in the text
RECURSIVE replaceGroupsKeepMissing(_, _)
replaceGroupsKeepMissing(s, match) ==
    IF s = <<>> THEN <<>>
    ELSE IF Head(s) = "$" /\ DigitRun(Tail(s)) > 0
         THEN LET k == DigitRun(Tail(s))
                  n == parseInt(SubSeq(s, 2, k + 1)).n
              IN (IF n + 1 \in DOMAIN match.groups /\ match.groups[n + 1].def
                  THEN match.groups[n + 1].s ELSE SubSeq(s, 1, k + 1))
                 \o replaceGroupsKeepMissing(SubSeq(s, k + 2, Len(s)), match)
         ELSE <<Head(s)>> \o replaceGroupsKeepMissing(Tail(s), match)

\* exec.message.replace(/\$(\d+)/g, (_, g1) => match[parseInt(g1, 10)] || "")
RECURSIVE replaceGroups(_, _)
replaceGroups(s, match) ==
    IF s = <<>> THEN <<>>
    ELSE IF Head(s) = "$" /\ DigitRun(Tail(s)) > 0
         THEN LET k == DigitRun(Tail(s))
                  g1 == SubSeq(s, 2, k + 1)
              IN GroupOrEmpty(match, parseInt(g1).n)
                 \o replaceGroups(SubSeq(s, k + 2, Len(s)), match)
         ELSE <<Head(s)>> \o replaceGroups(Tail(s), match)

\* the inputs the auto_reply tool is called with (AutoReplySchema: kind,
\* when and message, both strings)
HelloRule == [kind |-> "auto_reply", when |-> "^hi$",
              message |-> <<"h", "e", "l", "l", "o", " ", "$", "1">>]
GroupsRule == [kind |-> "auto_reply", when |-> "(h)(x)?i",
               message |-> <<"$", "1", ",", "$", "2", ",", "$", "1", "2", ",", "$", "0">>]
InvalidRule == [kind |-> "auto_reply", when |-> "(", message |-> <<"x">>]
UserRule == [kind |-> "auto_reply", when |-> "^hi$",
             message |-> <<"$", "u", "s", "e", "r", "n", "a", "m", "e", "!">>]
RuleInputs == {HelloRule, GroupsRule, InvalidRule, UserRule}

\* JSON.stringify(input) read back by safeJsonParseAsync(AutoReplySchema, _):
\* an object of string fields is read back as written, and it passes the
\* schema when it is an auto_reply with a when and a message
\* a slip that checks the fields of the object and not its kind
safeJsonParseAsyncAnyKind(value) ==
    IF "when" \in DOMAIN value /\ "message" \in DOMAIN value
    THEN [success |-> TRUE, data |-> value]
    ELSE [success |-> FALSE, data |-> value]

safeJsonParseAsync(value) ==
    IF "kind" \in DOMAIN value /\ value.kind = "auto_reply"
       /\ "when" \in DOMAIN value /\ "message" \in DOMAIN value
    THEN [success |-> TRUE, data |-> value]
    ELSE [success |-> FALSE, data |-> value]

\* Array.prototype.filter
RECURSIVE SelectRows(_, _)
SelectRows(table, chatId) ==
    IF table = <<>> THEN <<>>
    ELSE IF Head(table).chat_id = chatId
         THEN <<Head(table)>> \o SelectRows(Tail(table), chatId)
         ELSE SelectRows(Tail(table), chatId)

\* execsTable.where chat_id = chatId, each value parsed (part_005:520-526)
getExecs(table, chatId) ==
    LET execsRaw == SelectRows(table, chatId) IN
    [i \in DOMAIN execsRaw |-> safeJsonParseAsync(execsRaw[i].value)]

\* a slip that declares the id INTEGER PRIMARY KEY without AUTOINCREMENT:
\* the new id is one more than the largest id now in the table
insertReusingIds(table, seq, data) ==
    LET largest == IF table = <<>> THEN 0 ELSE table[Len(table)].id IN
    Append(table, [id |-> largest + 1] @@ data)

\* INSERT into a table whose id is INTEGER PRIMARY KEY AUTOINCREMENT
\* (tools.ts:74, 81): the new id is one more than the largest id the table
\* has ever held, which sqlite_sequence records
insert(table, seq, data) == Append(table, [id |-> seq + 1] @@ data)

\* auto_reply.execute (tools.ts:112-125). The query object insert returns is
\* not awaited: ran tells whether the runtime executes it all the same
execsInsert(chatId, input, ran) ==
    IF ran
    THEN /\ execsTable' = insert(execsTable, sqlite_sequence.execs,
                                 [chat_id |-> chatId, value |-> input])
         /\ sqlite_sequence' = [sqlite_sequence EXCEPT !.execs = @ + 1]
    ELSE UNCHANGED <<execsTable, sqlite_sequence>>

\* auto_reply.execute called by some generation of chat chatId
auto_reply_execute(inputs) ==
    /\ sqlite_sequence.execs < MaxRules
    /\ \E chatId \in {RuleChat, OtherChat}, ran \in BOOLEAN :
       \E input \in (IF chatId = RuleChat THEN inputs ELSE {HelloRule}) :
         execsInsert(chatId, input, ran)
    /\ UNCHANGED <<memoriesTable, ruleVars, outsideRules>>

\* the messages that arrive in RuleChat
IncomingTexts == { <<"h", "i">>, <<"H", "i", "p">> }
IncomingMessages(id) ==
    { [message_id |-> id, chat |-> RuleChat, from |-> f, text |-> t] :
        f \in {Bob, Ann}, t \in IncomingTexts }
    \cup { [message_id |-> id, chat |-> RuleChat, from |-> Bob],
           [message_id |-> id, chat |-> RuleChat, text |-> <<"h", "i">>] }

ARLocals == <<armsg, execsArr, ari, replies>>
ARFrame == <<enable_auto_reply, incoming, tableVars, outsideRules>>

\* bot.on("message", ...) is called with msg; it awaits getChatKV
ARReceive ==
    /\ arpc \in {"idle", "done", "thrown"}
    /\ incoming < MaxIncoming
    /\ \E msg \in IncomingMessages(incoming + 1) : armsg' = msg
    /\ incoming' = incoming + 1
    /\ execsArr' = <<>> /\ ari' = 0 /\ replies' = <<>>
    /\ arpc' = "kv"
    /\ UNCHANGED <<enable_auto_reply, tableVars, outsideRules>>

\* a slip that reads the value the way v.boolean does, whatever its case
ARCheckEnabledAnyCase ==
    /\ arpc = "kv"
    /\ arpc' = IF /\ enable_auto_reply.defined
                  /\ enable_auto_reply.value # <<>>
                  /\ enable_auto_reply.value \notin {<<"t", "r", "u", "e">>,
                                                     <<"T", "r", "u", "e">>}
               THEN "done" ELSE "execs"
    /\ UNCHANGED <<ARLocals, ARFrame>>

\* part_005:645-648: a set value other than "true" switches auto-reply off
ARCheckEnabled ==
    /\ arpc = "kv"
    /\ arpc' = IF /\ enable_auto_reply.defined
                  /\ enable_auto_reply.value # <<>>
                  /\ enable_auto_reply.value # <<"t", "r", "u", "e">>
               THEN "done" ELSE "execs"
    /\ UNCHANGED <<ARLocals, ARFrame>>

\* part_005:650
ARGetExecs ==
    /\ arpc = "execs"
    /\ execsArr' = getExecs(execsTable, armsg.chat)
    /\ ari' = 1
    /\ arpc' = "loop"
    /\ UNCHANGED <<armsg, replies, ARFrame>>

\* one iteration of the loop, up to its await (part_005:652-666)
ARStep ==
    /\ arpc = "loop"
    /\ ari <= Len(execsArr)
    /\ LET execRes == execsArr[ari] IN
       IF ~execRes.success
       THEN /\ ari' = ari + 1
            /\ UNCHANGED <<arpc, replies>>
       ELSE LET exec == execRes.data IN
            IF RegExpThrows(exec.when)
            THEN /\ arpc' = "thrown"
                 /\ UNCHANGED <<ari, replies>>
            ELSE LET match == IF "text" \in DOMAIN armsg /\ armsg.text # <<>>
                              THEN RegExpMatch(exec.when, armsg.text)
                              ELSE NullMatch
                 IN IF match.found
                    THEN LET response == replaceGroups(exec.message, match) IN
                         /\ replies' = Append(replies,
                                [rule |-> ari,
                                 chat_id |-> armsg.chat,
                                 text |-> replaceMessage(armsg, response),
                                 reply_to_message_id |-> armsg.message_id,
                                 result |-> "pending"])
                         /\ arpc' = "send"
                         /\ UNCHANGED ari
                    ELSE /\ ari' = ari + 1
                         /\ UNCHANGED <<arpc, replies>>
    /\ UNCHANGED <<armsg, execsArr, ARFrame>>

\* the loop is over: the handler returns
ARLoopEnd ==
    /\ arpc = "loop"
    /\ ari > Len(execsArr)
    /\ arpc' = "done"
    /\ UNCHANGED <<ARLocals, ARFrame>>

\* the awaited bot.sendMessage resolves: next iteration
ARSendResolve ==
    /\ arpc = "send"
    /\ replies' = [replies EXCEPT ![Len(replies)].result = "ok"]
    /\ ari' = ari + 1
    /\ arpc' = "loop"
    /\ UNCHANGED <<armsg, execsArr, ARFrame>>

\* the awaited bot.sendMessage rejects: nothing catches it in the handler
ARSendReject ==
    /\ arpc = "send"
    /\ replies' = [replies EXCEPT ![Len(replies)].result = "rejected"]
    /\ arpc' = "thrown"
    /\ UNCHANGED <<armsg, execsArr, ari, ARFrame>>

InitRules ==
    /\ execsTable = <<>> /\ memoriesTable = <<>>
    /\ sqlite_sequence = [execs |-> 0, memories |-> 0]
    /\ enable_auto_reply \in {NoRow, Row(<<"t", "r", "u", "e">>),
                              Row(<<"f", "a", "l", "s", "e">>),
                              Row(<<"T", "r", "u", "e">>)}
    /\ arpc = "idle" /\ armsg = <<>> /\ execsArr = <<>> /\ ari = 0
    /\ replies = <<>> /\ incoming = 0
    /\ IdleStream /\ IdleOps /\ IdleHandler /\ IdleRemove
    /\ IdleTools /\ IdleBatch
    /\ cache = <<>> /\ maxWindow = MaxWin

NextRules ==
    \/ auto_reply_execute(RuleInputs)
    \/ ARReceive
    \/ ARCheckEnabled
    \/ ARGetExecs
    \/ ARStep
    \/ ARLoopEnd
    \/ ARSendResolve
    \/ ARSendReject

SpecRules == InitRules /\ [][NextRules]_vars

----------------------------------------------------------------------------
(* Claims about the auto-reply rules *)

ARFinished == arpc \in {"done", "thrown"} /\ execsArr # <<>>

NoSendRejected == \A k \in DOMAIN replies : replies[k].result # "rejected"

HasText(msg) == "text" \in DOMAIN msg /\ msg.text # <<>>

\* the rule at position i of the rules read compiles and matches the text
RuleMatches(i) ==
    /\ execsArr[i].success
    /\ ~RegExpThrows(execsArr[i].data.when)
    /\ HasText(armsg)
    /\ RegExpMatch(execsArr[i].data.when, armsg.text).found

RECURSIVE MatchingRules(_)
MatchingRules(n) ==
    IF n = 0 THEN <<>>
    ELSE IF RuleMatches(n) THEN Append(MatchingRules(n - 1), n)
         ELSE MatchingRules(n - 1)

RepliedRules == [k \in DOMAIN replies |-> replies[k].rule]

HasInvalidRule ==
    \E i \in DOMAIN execsArr :
        execsArr[i].success /\ RegExpThrows(execsArr[i].data.when)

\* C12: when the chat holds a rule whose pattern does not compile, the
\* evaluation of an incoming message does not throw, and every other rule
\* that matches still gets its reply, wherever the invalid rule is stored.
C12_InvalidRuleIsSkipped ==
    (ARFinished /\ HasInvalidRule /\ NoSendRejected) =>
        /\ arpc = "done"
        /\ \A i \in DOMAIN execsArr :
             RuleMatches(i) => \E k \in DOMAIN replies : replies[k].rule = i

\* C13: for one incoming message the replies sent are those of the matching
\* rules, one each, in storage order.
C13_EveryMatchingRuleFires ==
    (ARFinished /\ NoSendRejected) =>
        RepliedRules = MatchingRules(Len(execsArr))

\* a template as the claim reads it: literal text, placeholders $n and
\* placeholders $username
Lit(s) == [kind |-> "lit", s |-> s]
Grp(n) == [kind |-> "group", n |-> n]
Usr == [kind |-> "user"]

DigitChar(d) ==
    CASE d = 0 -> "0" [] d = 1 -> "1" [] d = 2 -> "2" [] d = 3 -> "3"
      [] d = 4 -> "4" [] d = 5 -> "5" [] d = 6 -> "6" [] d = 7 -> "7"
      [] d = 8 -> "8" [] d = 9 -> "9"

\* n in decimal, n < 100
Decimal(n) ==
    IF n < 10 THEN <<DigitChar(n)>> ELSE <<DigitChar(n \div 10), DigitChar(n % 10)>>

\* the text of a template
RECURSIVE Render(_)
Render(segs) ==
    IF segs = <<>> THEN <<>>
    ELSE LET seg == Head(segs) IN
         (CASE seg.kind = "lit" -> seg.s
            [] seg.kind = "group" -> <<"$">> \o Decimal(seg.n)
            [] seg.kind = "user" -> UsernamePlaceholder)
         \o Render(Tail(segs))

\* capture group n of the match exists and took part in it
Participated(match, n) ==
    n + 1 \in DOMAIN match.groups /\ match.groups[n + 1].def

\* the sender has a handle
HasHandle(msg) == "username" \in DOMAIN msg.from /\ msg.from.username # <<>>

\* the reply the claims expect for a template, a match and a message: group n
\* or nothing for $n; "@" and the handle, or the display name, for $username
RECURSIVE ExpectedReply(_, _, _)
ExpectedReply(segs, match, msg) ==
    IF segs = <<>> THEN <<>>
    ELSE LET seg == Head(segs) IN
         (CASE seg.kind = "lit" -> seg.s
            [] seg.kind = "group" ->
                 IF Participated(match, seg.n) THEN match.groups[seg.n + 1].s
                 ELSE <<>>
            [] seg.kind = "user" ->
                 IF HasHandle(msg) THEN <<"@">> \o msg.from.username
                 ELSE msg.from.first_name)
         \o ExpectedReply(Tail(segs), match, msg)

HelloTemplate == << Lit(<<"h", "e", "l", "l", "o", " ">>), Grp(1) >>
GroupsTemplate ==
    << Grp(1), Lit(<<",">>), Grp(2), Lit(<<",">>), Grp(12), Lit(<<",">>), Grp(0) >>
UserTemplate == << Usr, Lit(<<"!">>) >>

GroupTemplates == {HelloTemplate, GroupsTemplate}

RuleOf(k) == execsArr[replies[k].rule].data
MatchOf(k) == RegExpMatch(RuleOf(k).when, armsg.text)

\* C14: in the reply of a matched rule every $n of the template is replaced
\* by capture group n of the match, and by the empty string when that group
\* does not exist or did not take part in the match.
C14_GroupSubstitution ==
    \A k \in DOMAIN replies :
        \A segs \in GroupTemplates :
            RuleOf(k).message = Render(segs) =>
                replies[k].text = ExpectedReply(segs, MatchOf(k), armsg)

\* rule "^hi$" with template "hello $1" on text "hi" has replied "hello ",
\* and the rule with groups 1, 2, 12 and 0 has replied too
C14_Witness ==
    /\ \E k \in DOMAIN replies :
         /\ RuleOf(k) = HelloRule
         /\ armsg.text = <<"h", "i">>
         /\ replies[k].text = <<"h", "e", "l", "l", "o", " ">>
    /\ \E k \in DOMAIN replies :
         /\ RuleOf(k) = GroupsRule
         /\ replies[k].text = <<"h", ",", ",", ",", "h", "i">>

\* C15: every $username of the template is replaced by "@" and the sender's
\* handle when the sender has one, and by the sender's display name when the
\* sender has no handle.
C15_UsernameSubstitution ==
    \A k \in DOMAIN replies :
        (RuleOf(k).message = Render(UserTemplate) /\ "from" \in DOMAIN armsg) =>
            replies[k].text = ExpectedReply(UserTemplate, MatchOf(k), armsg)

----------------------------------------------------------------------------
(* The removeexec and removememory commands (src/unnamed/part_005:704-762, *)
(* 797-839) over the execs and memories tables                              *)

MaxMemories == 1        \* rows the remember tool may insert
MaxRemoves == 2         \* removal commands received

RemoveSlots == {1, 2}   \* removal commands in flight at once
Tables == {"execs", "memories"}

TableOf(name) == IF name = "execs" THEN execsTable ELSE memoriesTable

\* table.where id = id AND chat_id = chatId
whereIdAndChat(table, id, chatId) ==
    LET Test(r) == r.id = id /\ r.chat_id = chatId IN SelectSeq(table, Test)

\* table.deleteWhere id = id
deleteWhereId(table, id) ==
    LET Test(r) == r.id # id IN SelectSeq(table, Test)

\* table.deleteWhere chat_id = chatId
deleteWhereChat(table, chatId) ==
    LET Test(r) == r.chat_id # chatId IN SelectSeq(table, Test)

memoriesInsert(chatId, message, ran) ==
    IF ran
    THEN /\ memoriesTable' = insert(memoriesTable, sqlite_sequence.memories,
                                    [chat_id |-> chatId, message |-> message,
                                     created_at |-> tclock])
         /\ sqlite_sequence' = [sqlite_sequence EXCEPT !.memories = @ + 1]
    ELSE UNCHANGED <<memoriesTable, sqlite_sequence>>

\* remember.execute (tools.ts:146-161); the query object is not awaited
remember_execute ==
    /\ sqlite_sequence.memories < MaxMemories
    /\ \E chatId \in Chats, ran \in BOOLEAN :
         memoriesInsert(chatId, <<"m">>, ran)
    /\ UNCHANGED <<execsTable, ruleVars, outsideRules>>

\* the text after the command: an id, "all", a word, nothing
IdStrs == { <<"1">>, <<"2">>, <<"a", "l", "l">>, <<"x">>, <<>> }

IdleCmd == [pc |-> "idle", table |-> "", chat |-> 0, id |-> 0, outcome |-> ""]

RemoveFrame == <<ruleVars, coreVars, toolVars, batchVars>>

\* the command handler is called with (msg, idStr) and runs to its first
\* await (part_005:709-738, 802-818)
RemoveReceive(slot) ==
    /\ rm[slot].pc \in {"idle", "done"}
    /\ \A other \in RemoveSlots : other < slot => rm[other].pc # "idle"
    /\ removes < MaxRemoves
    /\ removes' = removes + 1
    /\ \E name \in Tables, chatId \in Chats, idStr \in IdStrs :
         LET id == parseInt(idStr)
             cmd == [pc |-> "done", table |-> name, chat |-> chatId, id |-> 0,
                     outcome |-> ""]
         IN rm' = [rm EXCEPT ![slot] =
                IF idStr = <<>> THEN [IdleCmd EXCEPT !.pc = "done", !.outcome = "usage"]
                ELSE IF id.nan
                     THEN IF name = "execs" /\ idStr = <<"a", "l", "l">>
                          THEN [cmd EXCEPT !.pc = "deleteAll"]
                          ELSE [IdleCmd EXCEPT !.pc = "done", !.outcome = "nan"]
                     ELSE [cmd EXCEPT !.pc = "check", !.id = id.n]]
    /\ UNCHANGED <<tableVars, RemoveFrame>>

\* the ownership lookup (part_005:737-750, 820-829)
RemoveCheck(slot) ==
    /\ rm[slot].pc = "check"
    /\ LET c == rm[slot]
           exec == whereIdAndChat(TableOf(c.table), c.id, c.chat)
       IN rm' = [rm EXCEPT ![slot] =
              IF Len(exec) = 0 THEN [c EXCEPT !.pc = "done", !.outcome = "notfound"]
              ELSE [c EXCEPT !.pc = "delete"]]
    /\ UNCHANGED <<removes, tableVars, RemoveFrame>>

\* the delete by id and the success notice (part_005:752-761, 833-838)
RemoveDelete(slot) ==
    /\ rm[slot].pc = "delete"
    /\ LET c == rm[slot] IN
       /\ IF c.table = "execs"
          THEN /\ execsTable' = deleteWhereId(execsTable, c.id)
               /\ UNCHANGED memoriesTable
          ELSE /\ memoriesTable' = deleteWhereId(memoriesTable, c.id)
               /\ UNCHANGED execsTable
       /\ rm' = [rm EXCEPT ![slot] = [c EXCEPT !.pc = "done", !.outcome = "removed"]]
    /\ UNCHANGED <<removes, sqlite_sequence, RemoveFrame>>

\* removeexec all (part_005:723-729)
RemoveDeleteAll(slot) ==
    /\ rm[slot].pc = "deleteAll"
    /\ execsTable' = deleteWhereChat(execsTable, rm[slot].chat)
    /\ rm' = [rm EXCEPT ![slot] = [@ EXCEPT !.pc = "done", !.outcome = "removedAll"]]
    /\ UNCHANGED <<removes, memoriesTable, sqlite_sequence, RemoveFrame>>

InitRemove ==
    /\ IdleTables /\ IdleRules
    /\ rm = [slot \in RemoveSlots |-> IdleCmd]
    /\ removes = 0
    /\ IdleStream /\ IdleOps /\ IdleHandler
    /\ IdleTools /\ IdleBatch
    /\ cache = <<>> /\ maxWindow = MaxWin

NextRemove ==
    \/ auto_reply_execute({HelloRule})
    \/ remember_execute
    \/ \E slot \in RemoveSlots : RemoveReceive(slot)
    \/ \E slot \in RemoveSlots : RemoveCheck(slot)
    \/ \E slot \in RemoveSlots : RemoveDelete(slot)
    \/ \E slot \in RemoveSlots : RemoveDeleteAll(slot)

SpecRemove == InitRemove /\ [][NextRemove]_vars

----------------------------------------------------------------------------
(* Claims about removal by id *)

Rows(table) == {table[i] : i \in DOMAIN table}

\* the rows a step deletes from a table
Deleted(name) == Rows(TableOf(name)) \ Rows(TableOf(name)')

OwnedRowExists(c) ==
    \E r \in Rows(TableOf(c.table)) : r.id = c.id /\ r.chat_id = c.chat

\* C16: removeexec <id> and removememory <id> issued in chat A delete the
\* row with that id only if it belongs to chat A; when the row belongs to
\* another chat or does not exist, nothing is deleted and 'not found' is
\* reported.
C16_RemovalChecksOwnership ==
    [][\A slot \in RemoveSlots :
         LET c == rm[slot] IN
         /\ (c.pc = "delete" /\ rm'[slot].pc = "done") =>
              \A name \in Tables : \A r \in Deleted(name) :
                  name = c.table /\ r.id = c.id /\ r.chat_id = c.chat
         /\ (c.pc = "check" /\ rm'[slot].pc # "check") =>
              IF OwnedRowExists(c)
              THEN rm'[slot].pc = "delete"
              ELSE /\ rm'[slot].pc = "done"
                   /\ rm'[slot].outcome = "notfound"
                   /\ UNCHANGED tableVars]_vars

\* one command has removed its chat's row, another one was told 'not found'
\* for an id that is a row of another chat, and that row is still there
C16_Witness ==
    \E s1, s2 \in RemoveSlots :
        /\ rm[s1].pc = "done" /\ rm[s1].outcome = "removed"
        /\ ~ \E r \in Rows(TableOf(rm[s1].table)) : r.id = rm[s1].id
        /\ rm[s2].pc = "done" /\ rm[s2].outcome = "notfound"
        /\ \E r \in Rows(TableOf(rm[s2].table)) :
               r.id = rm[s2].id /\ r.chat_id # rm[s2].chat

----------------------------------------------------------------------------
(* registerCommand: the exec blocks of a response, each checked against the *)
(* schema and carried out on its own (src/unnamed/part_002:47-64, 148-202)  *)

MaxBatch == 3           \* exec blocks in one response

\* "<$username"
ReplyTemplate == <<"<">> \o UsernamePlaceholder

\* the message the handler is processing (part_002: msg, chatId)
LegacyMsg == [message_id |-> 1, chat |-> RuleChat, from |-> Bob]

RememberBlock == [kind |-> "remember", message |-> <<"m">>]
ReplyTimeoutBlock == [kind |-> "reply_timeout", timeout |-> 100,
                      message |-> ReplyTemplate]
\* timeout below the minimum of the schema
BadTimeoutBlock == [kind |-> "reply_timeout", timeout |-> 0,
                    message |-> ReplyTemplate]
\* a block that is not JSON
NotJsonBlock == [json |-> FALSE]
\* a block whose kind is none of the three of the schema
UnknownKindBlock == [kind |-> "shout", message |-> <<"m">>]
ExecBlocks == {HelloRule, RememberBlock, ReplyTimeoutBlock, BadTimeoutBlock,
               NotJsonBlock, UnknownKindBlock}

\* a slip that lets a payload of an unknown kind pass the schema
legacyParseAnyKind(x) ==
    [success |-> "kind" \in DOMAIN x /\ x.kind # "reply_timeout", data |-> x]

\* safeJsonParseAsync(schema, x) with the z.xor schema of part_002:47-64
legacyParse(x) ==
    [success |->
        /\ "kind" \in DOMAIN x
        /\ CASE x.kind = "auto_reply" ->
                  "when" \in DOMAIN x /\ "message" \in DOMAIN x
             [] x.kind = "reply_timeout" ->
                  "timeout" \in DOMAIN x /\ x.timeout >= 1 /\ "message" \in DOMAIN x
             [] x.kind = "remember" -> "message" \in DOMAIN x
             [] OTHER -> FALSE,
     data |-> x]

\* setTimeout(callback, timeout) for message msg and template message
Timer(msg, message, timeout) ==
    [msg |-> msg, message |-> message, timeout |-> timeout,
     registered |-> tclock, st |-> "armed"]

IdleTask == [pc |-> "parse", notice |-> "none", sent |-> <<>>]

\* a slip that gives up the blocks still in progress when one block fails
FailedAbortsSiblings(ts, i) ==
    [j \in DOMAIN ts |->
        IF j = i THEN [ts[j] EXCEPT !.pc = "done", !.notice = "failed"]
        ELSE IF ts[j].pc # "done"
             THEN [ts[j] EXCEPT !.pc = "done", !.notice = "none"]
             ELSE ts[j]]

\* the else branch (part_002:193-199): the failure notice of block i
Failed(ts, i) == [ts EXCEPT ![i].pc = "done", ![i].notice = "failed"]

\* z.prettifyError(parsed.error): what the schema found wrong with the value
prettifyError(x) ==
    IF "json" \in DOMAIN x THEN "invalid input: undefined"
    ELSE "invalid input"

\* a slip that names one kind whatever was registered
SuccessNoticeFixedKind(exec) == [says |-> "registered", kind |-> "auto_reply"]

\* the notice of a registered block names exec.kind (part_002:190-192)
SuccessNotice(exec) == [says |-> "registered", kind |-> exec.kind]

\* the notice of a failed block names the raw payload x and the error
\* (part_002:194-198)
FailureNotice(x) ==
    [says |-> "failed", payload |-> x, error |-> prettifyError(x)]

\* bot.sendMessage(chatId, notice, ...) called by the task of block i
Notify(ts, i, notice) == [ts EXCEPT ![i].sent = Append(@, notice)]

BatchFrame == <<ruleVars, removeVars, coreVars, th, inbox, outbox, tclock, registered>>

\* registerCommand(response): every block starts its task
BatchStart ==
    /\ batch.pc = "idle"
    /\ \E n \in 1..MaxBatch : \E execs \in [1..n -> ExecBlocks] :
         /\ batch' = [execs |-> execs, pc |-> "running"]
         /\ tasks' = [i \in 1..n |-> IdleTask]
    /\ UNCHANGED <<tableVars, timers, BatchFrame>>

\* the task of block i after its parse, up to its next await
TaskParse(i) ==
    /\ batch.pc = "running"
    /\ i \in DOMAIN tasks
    /\ tasks[i].pc = "parse"
    /\ LET parsed == legacyParse(batch.execs[i]) IN
       IF parsed.success
       THEN IF parsed.data.kind = "reply_timeout"
            THEN /\ timers' = Append(timers, Timer(LegacyMsg, parsed.data.message,
                                                   parsed.data.timeout))
                 /\ tasks' = Notify([tasks EXCEPT ![i].pc = "done",
                                                  ![i].notice = "registered"],
                                    i, SuccessNotice(parsed.data))
            ELSE /\ tasks' = [tasks EXCEPT ![i].pc = "insert"]
                 /\ UNCHANGED timers
       ELSE /\ tasks' = Notify(Failed(tasks, i), i, FailureNotice(batch.execs[i]))
            /\ UNCHANGED timers
    /\ UNCHANGED <<batch, tableVars, BatchFrame>>

\* the awaited INSERT of block i, then its notice (part_002:157-171, 190-192)
TaskInsert(i) ==
    /\ batch.pc = "running"
    /\ i \in DOMAIN tasks
    /\ tasks[i].pc = "insert"
    /\ IF batch.execs[i].kind = "remember"
       THEN /\ memoriesInsert(LegacyMsg.chat, batch.execs[i].message, TRUE)
            /\ UNCHANGED execsTable
       ELSE /\ execsInsert(LegacyMsg.chat, batch.execs[i], TRUE)
            /\ UNCHANGED memoriesTable
    /\ tasks' = Notify([tasks EXCEPT ![i].pc = "done", ![i].notice = "registered"],
                       i, SuccessNotice(batch.execs[i]))
    /\ UNCHANGED <<batch, timers, BatchFrame>>

\* Promise.allSettled resolves
BatchSettle ==
    /\ batch.pc = "running"
    /\ \A i \in DOMAIN tasks : tasks[i].pc = "done"
    /\ batch' = [batch EXCEPT !.pc = "settled"]
    /\ UNCHANGED <<tasks, tableVars, timers, BatchFrame>>

InitBatch ==
    /\ IdleTables /\ IdleRules /\ IdleRemove /\ IdleTools /\ IdleBatch
    /\ IdleStream /\ IdleOps /\ IdleHandler
    /\ cache = <<>> /\ maxWindow = MaxWin

NextBatch ==
    \/ BatchStart
    \/ \E i \in 1..MaxBatch : TaskParse(i)
    \/ \E i \in 1..MaxBatch : TaskInsert(i)
    \/ BatchSettle

SpecBatch == InitBatch /\ [][NextBatch]_vars

----------------------------------------------------------------------------
(* Claims about the effect calls of one generation *)

ValidBlocks == {HelloRule, RememberBlock, ReplyTimeoutBlock}

BlocksOfKind(kind) ==
    Cardinality({i \in DOMAIN batch.execs :
                    batch.execs[i] \in ValidBlocks /\ batch.execs[i].kind = kind})

\* C17: when one effect call of a batch fails the schema check, every other
\* call of the batch is still carried out and acknowledged: each call's
\* outcome depends on that call alone.
C17_SettleAll ==
    batch.pc = "settled" =>
        /\ \A i \in DOMAIN tasks :
             tasks[i].notice = IF batch.execs[i] \in ValidBlocks
                               THEN "registered" ELSE "failed"
        /\ Len(execsTable) = BlocksOfKind("auto_reply")
        /\ Len(memoriesTable) = BlocksOfKind("remember")
        /\ Len(timers) = BlocksOfKind("reply_timeout")

\* a batch of three whose first call fails the schema check and whose other
\* two are carried out and acknowledged
C17_Witness ==
    /\ batch.pc = "settled"
    /\ Len(batch.execs) = 3
    /\ batch.execs[1] \notin ValidBlocks
    /\ batch.execs[2] \in ValidBlocks /\ tasks[2].notice = "registered"
    /\ batch.execs[3] \in ValidBlocks /\ tasks[3].notice = "registered"

RejectedBlocks == {UnknownKindBlock, NotJsonBlock}

Accepted == {i \in DOMAIN batch.execs : batch.execs[i] \notin RejectedBlocks}

\* C24: a payload whose kind is none of the three known ones, or that is
\* not JSON, is rejected as a validation error: no memory, rule or timer is
\* created for it, and the failure is reported instead of being passed over.
C24_UnknownKindRejected ==
    /\ Len(execsTable) + Len(memoriesTable) + Len(timers) <= Cardinality(Accepted)
    /\ \A r \in Rows(execsTable) : r.value \notin RejectedBlocks
    /\ \A i \in DOMAIN tasks :
          batch.execs[i] \in RejectedBlocks =>
              /\ tasks[i].pc \in {"parse", "done"}
              /\ tasks[i].pc = "done" =>
                    /\ Len(tasks[i].sent) = 1
                    /\ tasks[i].sent[1].says = "failed"
                    /\ tasks[i].sent[1].payload = batch.execs[i]

\* a settled batch of an unknown kind, a block that is not JSON and a rule:
\* only the rule was created
C24_Witness ==
    /\ batch.pc = "settled"
    /\ batch.execs = <<UnknownKindBlock, NotJsonBlock, HelloRule>>
    /\ Len(execsTable) = 1 /\ memoriesTable = <<>> /\ timers = <<>>
    /\ tasks[1].sent[1].says = "failed"
    /\ tasks[2].sent[1].says = "failed"

----------------------------------------------------------------------------
(* getMemories: the memories of a chat, newest first, at most 50            *)
(* (src/unnamed/part_005:539-544)                                           *)

MemPrefill == 50        \* memories stored before the first step
MaxNewMemories == 2     \* memories stored after that

\* LIMIT 50
MemoryLimit == 50

\* the memories table after one memory of OtherChat and n - 1 memories of
\* RuleChat: stored one millisecond apart when spread, all within
\* millisecond n otherwise
Prefill(n, spread) ==
    [i \in 1..n |-> [id |-> i, chat_id |-> IF i = 1 THEN OtherChat ELSE RuleChat,
                     message |-> <<"m">>,
                     created_at |-> IF spread THEN i ELSE n]]

\* r comes before e under ORDER BY created_at DESC; the order of rows with
\* the same created_at is not fixed by the query: newerFirst picks one
Before(r, e, newerFirst) ==
    \/ r.created_at > e.created_at
    \/ r.created_at = e.created_at /\ (IF newerFirst THEN r.id > e.id ELSE r.id < e.id)

\* ORDER BY created_at DESC
OrderByCreatedAtDesc(rows, newerFirst) ==
    LET Precedes(r, e) == Before(r, e, newerFirst) IN SortSeq(rows, Precedes)

\* LIMIT n
Limit(rows, n) == SubSeq(rows, 1, Min(n, Len(rows)))

\* a slip that orders by created_at ASC
getMemoriesOldestFirst(table, chatId, newerFirst) ==
    LET rows == OrderByCreatedAtDesc(SelectRows(table, chatId), newerFirst) IN
    Limit([i \in DOMAIN rows |-> rows[Len(rows) + 1 - i]], MemoryLimit)

\* memoriesTable.where chat_id = chatId ORDER BY created_at DESC LIMIT 50
\* (part_005:539-544)
getMemories(table, chatId, newerFirst) ==
    Limit(OrderByCreatedAtDesc(SelectRows(table, chatId), newerFirst), MemoryLimit)

MemoryFrame == <<execsTable, ruleVars, removeVars, batchVars, streamVars,
                 cacheVars, opVars, handlerVars, upstreamVars,
                 th, inbox, timers, outbox, registered, libVars>>

\* a memory of some chat is stored (the awaited INSERT of part_002:158-161)
MemStore ==
    /\ Len(memoriesTable) < MemPrefill + MaxNewMemories
    /\ \E chatId \in {RuleChat, OtherChat} : memoriesInsert(chatId, <<"m">>, TRUE)
    /\ UNCHANGED <<tclock, memories, MemoryFrame>>

\* time passes
MemTick ==
    /\ tclock < MemPrefill + MaxNewMemories
    /\ tclock' = tclock + 1
    /\ UNCHANGED <<tableVars, memories, MemoryFrame>>

\* a handler calls getMemories(msg.chat.id) (part_005:955)
MemRead ==
    /\ \E chatId \in {RuleChat, OtherChat}, newerFirst \in BOOLEAN :
         memories' = [read |-> TRUE, chat_id |-> chatId,
                      rows |-> getMemories(memoriesTable, chatId, newerFirst),
                      table |-> memoriesTable]
    /\ UNCHANGED <<tableVars, tclock, MemoryFrame>>

InitMemories ==
    /\ \E spread \in BOOLEAN : memoriesTable = Prefill(MemPrefill, spread)
    /\ execsTable = <<>>
    /\ sqlite_sequence = [execs |-> 0, memories |-> MemPrefill]
    /\ tclock = MemPrefill
    /\ th = <<>> /\ inbox = <<>> /\ timers = <<>> /\ outbox = <<>> /\ registered = 0
    /\ IdleRules /\ IdleRemove /\ IdleBatch
    /\ IdleStream /\ IdleOps /\ IdleHandler
    /\ cache = <<>> /\ maxWindow = MaxWin

NextMemories ==
    \/ MemStore
    \/ MemTick
    \/ MemRead

SpecMemories == InitMemories /\ [][NextMemories]_vars

\* the rows of the chat asked for, in the table the read saw
Mine == {r \in Rows(memories.table) : r.chat_id = memories.chat_id}

\* C25: getMemories returns only memories of the chat asked for, newest
\* first by creation time, and never more than 50; when the chat has more,
\* the 50 newest are the ones returned.
C25_NewestFiftyOfChat ==
    memories.read =>
        LET res == memories.rows IN
        /\ \A i \in DOMAIN res : res[i] \in Mine
        /\ \A i \in 1..(Len(res) - 1) : res[i].created_at >= res[i + 1].created_at
        /\ Cardinality(Rows(res)) = Len(res)
        /\ Len(res) = Min(MemoryLimit, Cardinality(Mine))
        /\ \A r \in Mine \ Rows(res) : r.created_at <= res[Len(res)].created_at

\* a read of a chat with more than 50 memories, stored at different times
\* and next to a memory of another chat, returned 50 and left the oldest out
C25_Witness ==
    /\ memories.read
    /\ memories.chat_id = RuleChat
    /\ Cardinality(Mine) > MemoryLimit
    /\ Len(memories.rows) = MemoryLimit
    /\ memories.rows[1].created_at > memories.rows[MemoryLimit].created_at
    /\ \E r \in Rows(memories.table) : r.chat_id = OtherChat
    /\ \E r \in Mine \ Rows(memories.rows) :
           r.created_at < memories.rows[MemoryLimit].created_at

----------------------------------------------------------------------------
(* The tools of a generation and the timers they register                   *)
(* (src/src/modules/ai/tools.ts:111-162)                                    *)

MaxToolMsgs == 2        \* messages received
MaxTimers == 1          \* reply_after calls
MaxRegs == 3            \* auto_reply calls
MaxToolTicks == 2       \* steps of the clock
ToolTickMs == 100       \* milliseconds in one step of the clock

\* Time in this section is counted in steps of ToolTickMs milliseconds.

ToolHandlers == {1, 2}  \* message handlers in flight at once

\* input.timeout: z.number().min(1), with no upper limit. 1 is 100 ms and
\* LongTimeout is 3,000,000,000 ms, about 35 days.
LongTimeout == 30000000
Timeouts == {1, LongTimeout}

\* the largest delay a timer of the runtime holds, 2^31 - 1 ms
TIMEOUT_MAX == 2147483647

\* setTimeout(callback, delay): a delay above TIMEOUT_MAX is set to 1 ms,
\* which is less than one step of the clock
setTimeoutDelay(delay) ==
    IF delay > TIMEOUT_MAX \div ToolTickMs THEN 0 ELSE delay

Horizon == MaxToolTicks

\* the acknowledgment text of reply_after (tools.ts:131)
ReplyAfterAck ==
    <<"u6210", "u529f", "u5730", "u6ce8", "u518c", "u4e86", " ",
      "r", "e", "p", "l", "y", "_", "a", "f", "t", "e", "r">>

\* the character reference the HTML serializer writes for a character of text
escapeChar(c) ==
    IF c = "&" THEN <<"&", "a", "m", "p", ";">>
    ELSE IF c = "<" THEN <<"&", "l", "t", ";">>
    ELSE IF c = ">" THEN <<"&", "g", "t", ";">>
    ELSE <<c>>

\* markdownToTelegramHtml for a paragraph of plain text: the paragraph
\* element is dropped and the characters &, < and > become references
RECURSIVE markdownToTelegramHtml(_)
markdownToTelegramHtml(markdown) ==
    IF markdown = <<>> THEN <<>>
    ELSE escapeChar(Head(markdown)) \o markdownToTelegramHtml(Tail(markdown))

\* setTimeout runs the callback once its delay has passed
DueReached(timer, ms) ==
    ms >= timer.registered + setTimeoutDelay(timer.timeout)

\* a slip that reads the message from a variable every handler overwrites
LatestMsg(timer, received) == received[Len(received)]

\* the msg the callback closes over
CapturedMsg(timer, received) == timer.msg

IdleTH == [pc |-> "idle", mid |-> 0]

ToolFrame == <<ruleVars, removeVars, batchVars, coreVars>>

\* msg.from of the message with a given message_id
SenderOf(id) == IF id % 2 = 1 THEN Bob ELSE Ann

\* bot.on("message") calls the handler with msg; the generation starts with
\* makeToolSet(ctx, msg)
ToolReceive(h) ==
    /\ th[h].pc = "idle"
    /\ \A other \in ToolHandlers : other < h => th[other].pc # "idle"
    /\ Len(inbox) < MaxToolMsgs
    /\ inbox' = Append(inbox, [message_id |-> Len(inbox) + 1, chat |-> RuleChat,
                               from |-> SenderOf(Len(inbox) + 1)])
    /\ th' = [th EXCEPT ![h] = [pc |-> "generating", mid |-> Len(inbox) + 1]]
    /\ UNCHANGED <<timers, outbox, tclock, registered, tableVars, ToolFrame>>

\* the generation of handler h calls auto_reply (tools.ts:112-125)
CallAutoReply(h) ==
    /\ th[h].pc = "generating"
    /\ registered < MaxRegs
    /\ \E input \in {HelloRule, UserRule}, ran \in BOOLEAN :
         execsInsert(inbox[th[h].mid].chat, input, ran)
    /\ registered' = registered + 1
    /\ UNCHANGED <<th, inbox, timers, outbox, tclock, memoriesTable, ToolFrame>>

\* the acknowledgments of remember sent so far
Remembered(sent) ==
    LET IsAck(m) == m.kind = "remembered" IN SelectSeq(sent, IsAck)

\* the generation of handler h calls remember (tools.ts:146-161)
CallRemember(h) ==
    /\ th[h].pc = "generating"
    /\ Len(Remembered(outbox)) < MaxMemories
    /\ LET msg == inbox[th[h].mid] IN
       \E ran \in BOOLEAN :
         /\ memoriesInsert(msg.chat, <<"m">>, ran)
         /\ outbox' = Append(outbox,
                [kind |-> "remembered", chat_id |-> msg.chat,
                 text |-> <<"u8bb0", "u4f4f", "u4e86", " ", "m">>,
                 reply_to_message_id |-> msg.message_id])
    /\ UNCHANGED <<th, inbox, timers, tclock, registered, execsTable, ToolFrame>>

\* the generation of handler h calls reply_after (tools.ts:126-145)
CallReplyAfter(h) ==
    /\ th[h].pc = "generating"
    /\ Len(timers) < MaxTimers
    /\ LET msg == inbox[th[h].mid] IN
       \E timeout \in Timeouts :
         /\ tclock + setTimeoutDelay(timeout) <= Horizon
         /\ outbox' = Append(outbox,
                [kind |-> "ack", timer |-> Len(timers) + 1,
                 chat_id |-> msg.chat, text |-> ReplyAfterAck,
                 reply_to_message_id |-> msg.message_id, at |-> tclock,
                 received |-> Len(inbox)])
         /\ timers' = Append(timers, Timer(msg, ReplyTemplate, timeout))
    /\ UNCHANGED <<th, inbox, tclock, registered, tableVars, ToolFrame>>

\* the generation of handler h ends and the handler returns
ToolFinish(h) ==
    /\ th[h].pc = "generating"
    /\ th' = [th EXCEPT ![h] = IdleTH]
    /\ UNCHANGED <<inbox, timers, outbox, tclock, registered, tableVars, ToolFrame>>

\* time passes
Advance ==
    /\ tclock < Horizon
    /\ tclock' = tclock + 1
    /\ UNCHANGED <<th, inbox, timers, outbox, registered, tableVars, ToolFrame>>

\* the callback of timer i runs: it renders the template and calls
\* bot.sendMessage (tools.ts:134-143)
TimerRun(i) ==
    /\ i \in DOMAIN timers
    /\ timers[i].st = "armed"
    /\ DueReached(timers[i], tclock)
    /\ LET msg == CapturedMsg(timers[i], inbox) IN
       outbox' = Append(outbox,
            [kind |-> "deferred", timer |-> i,
             chat_id |-> msg.chat,
             text |-> markdownToTelegramHtml(replaceMessage(msg, timers[i].message)),
             reply_to_message_id |-> msg.message_id, at |-> tclock,
             received |-> Len(inbox)])
    /\ timers' = [timers EXCEPT ![i].st = "sent"]
    /\ UNCHANGED <<th, inbox, tclock, registered, tableVars, ToolFrame>>

InitTools ==
    /\ th = [h \in ToolHandlers |-> IdleTH]
    /\ inbox = <<>> /\ timers = <<>> /\ outbox = <<>>
    /\ tclock = 0 /\ registered = 0
    /\ IdleTables /\ IdleRules /\ IdleRemove /\ IdleBatch
    /\ IdleStream /\ IdleOps /\ IdleHandler
    /\ cache = <<>> /\ maxWindow = MaxWin

NextTools ==
    \/ \E h \in ToolHandlers : ToolReceive(h)
    \/ \E h \in ToolHandlers : CallReplyAfter(h)
    \/ \E h \in ToolHandlers : ToolFinish(h)
    \/ Advance
    \/ \E i \in 1..MaxTimers : TimerRun(i)

SpecTools == InitTools /\ [][NextTools]_vars

\* the event loop runs a callback that is due, and time passes
SpecToolsFair ==
    /\ SpecTools
    /\ WF_vars(Advance)
    /\ \A i \in 1..MaxTimers : WF_vars(TimerRun(i))

\* the auto_reply registrations of concurrently processed messages
NextRegister ==
    \/ \E h \in ToolHandlers : ToolReceive(h)
    \/ \E h \in ToolHandlers : CallAutoReply(h)
    \/ \E h \in ToolHandlers : CallRemember(h)
    \/ \E h \in ToolHandlers : ToolFinish(h)

SpecRegister == InitTools /\ [][NextRegister]_vars

----------------------------------------------------------------------------
(* Claims about reply_after and auto_reply registrations *)

DeferredOf(i) ==
    {p \in DOMAIN outbox : outbox[p].kind = "deferred" /\ outbox[p].timer = i}

AckOf(i) ==
    {q \in DOMAIN outbox : outbox[q].kind = "ack" /\ outbox[q].timer = i}

OnceAndNotEarly ==
    \A i \in DOMAIN timers :
        /\ Cardinality(DeferredOf(i)) <= 1
        /\ timers[i].st = "sent" <=> Cardinality(DeferredOf(i)) = 1
        /\ \A p \in DeferredOf(i) :
             outbox[p].at >= timers[i].registered + timers[i].timeout

\* C18: a reply_after registered while message M is processed delivers its
\* message exactly once, not before the requested timeout has passed, and
\* does so whatever further messages the chat receives in the meantime.
C18_DeliversOnceAfterTimeout ==
    /\ []OnceAndNotEarly
    /\ \A i \in 1..MaxTimers :
         (i \in DOMAIN timers) ~> (i \in DOMAIN timers /\ timers[i].st = "sent")

\* C19: the acknowledgment of reply_after is sent at registration and before
\* the deferred message; the deferred message replies to the triggering
\* message M in M's chat with $username taken from M's sender, never from
\* the sender of a later message.
C19_DeferredRepliesToOriginal ==
    \A p \in DOMAIN outbox :
        outbox[p].kind = "deferred" =>
            \E q \in AckOf(outbox[p].timer) :
                LET M == inbox[outbox[q].reply_to_message_id] IN
                /\ q < p
                /\ outbox[q].at = timers[outbox[p].timer].registered
                /\ outbox[q].chat_id = M.chat
                /\ outbox[p].chat_id = M.chat
                /\ outbox[p].reply_to_message_id = M.message_id
                /\ outbox[p].text =
                     markdownToTelegramHtml(replaceMessage(M, ReplyTemplate))

\* a deferred message was sent after a message of another sender came in
C19_Witness ==
    \E p \in DOMAIN outbox :
        /\ outbox[p].kind = "deferred"
        /\ outbox[p].received > outbox[p].reply_to_message_id
        /\ inbox[outbox[p].received].from
             # inbox[outbox[p].reply_to_message_id].from
        /\ outbox[p].text = <<"&", "l", "t", ";", "@", "b", "o", "b">>

\* C20: the auto_reply registrations of a chat, those of two concurrently
\* processed messages included, each leave their own row in the execs
\* table, with an id no other row has.
C20_RegistrationsPersist ==
    /\ Len(SelectRows(execsTable, RuleChat)) = registered
    /\ \A i, j \in DOMAIN execsTable :
         i # j => execsTable[i].id # execsTable[j].id

\* C21: when remember or auto_reply returns its acknowledgment, exactly one
\* new row of the triggering chat is already in the table, so that a read
\* starting after the acknowledgment sees it.
C21_AckAfterPersist ==
    [][/\ registered' = registered + 1 =>
            Len(SelectRows(execsTable', RuleChat))
              = Len(SelectRows(execsTable, RuleChat)) + 1
       /\ Len(Remembered(outbox')) = Len(Remembered(outbox)) + 1 =>
            Len(SelectRows(memoriesTable', RuleChat))
              = Len(SelectRows(memoriesTable, RuleChat)) + 1]_vars

\* the for-await over stream.fullStream threw
UpstreamThrown ==
    pc = "thrown" /\ \A i \in DOMAIN deliveries : deliveries[i].result # "failed"

\* C22: when the generation fails or the stream errors, exactly one apology
\* is sent for the message, and the handler neither retries the generation
\* nor edits the response message again.
C22_OneApologyOnUpstreamFailure ==
    (handler # "streaming" /\ (errorParts > 0 \/ UpstreamThrown)) =>
        /\ apologies = 1
        /\ Finals = {}

----------------------------------------------------------------------------
(* The chats side by side: the cache, the rules, the memories and the      *)
(* removal commands of two chats served by one process                     *)
(* (message-cache.ts:24-60, part_005:644-735)                               *)

MaxChatOps == 3         \* messages, commands and tool calls of both chats

\* what the process has been asked to do so far
ChatOps ==
    HistorySize + incoming + removes
      + sqlite_sequence.execs + sqlite_sequence.memories

\* bot.on("message", ...) is called with a message of the other chat
\* (part_005:644)
ARReceiveOther ==
    /\ arpc \in {"idle", "done", "thrown"}
    /\ incoming < MaxIncoming
    /\ armsg' = [message_id |-> incoming + 1, chat |-> OtherChat, from |-> Bob,
                 text |-> <<"h", "i">>]
    /\ incoming' = incoming + 1
    /\ execsArr' = <<>> /\ ari' = 0 /\ replies' = <<>>
    /\ arpc' = "kv"
    /\ UNCHANGED <<enable_auto_reply, tableVars, outsideRules>>

\* The promise of the AUTO REPLY listener rejected (part_005:644-668: the
\* listener is async and has no try/catch, and the emitter drops the promise
\* it returns). No unhandledRejection listener is installed anywhere, so the
\* runtime decides: it logs the rejection and goes on, or it ends the
\* process, and with it the MessageCache created at part_005:518 and every
\* handler in flight. The tables are in data.sqlite and stay.
UnhandledRejection ==
    /\ arpc = "thrown"
    /\ \E exits \in BOOLEAN :
         IF exits
         THEN /\ cache' = <<>>
              /\ lastOp' = [op |-> "exit", before |-> cache, onlyAdds |-> FALSE]
              /\ rm' = [slot \in RemoveSlots |-> IdleCmd]
              /\ arpc' = "idle"
              /\ armsg' = <<>> /\ execsArr' = <<>> /\ ari' = 0 /\ replies' = <<>>
              /\ UNCHANGED <<maxWindow, added, enable_auto_reply, incoming,
                             removes, tableVars, streamVars, handlerVars,
                             toolVars, batchVars, upstreamVars, readVars>>
         ELSE UNCHANGED vars

InitChats == InitRemove

NextChats ==
    \/ ChatOps < MaxChatOps /\ AddMessageCall
    \/ ClearChatCall
    \/ ChatOps < MaxChatOps /\ auto_reply_execute({HelloRule, InvalidRule})
    \/ ChatOps < MaxChatOps /\ remember_execute
    \/ ChatOps < MaxChatOps /\ ARReceive
    \/ ChatOps < MaxChatOps /\ ARReceiveOther
    \/ ARCheckEnabled
    \/ ARGetExecs
    \/ ARStep
    \/ ARLoopEnd
    \/ ARSendResolve
    \/ ARSendReject
    \/ UnhandledRejection
    \/ \E slot \in RemoveSlots : ChatOps < MaxChatOps /\ RemoveReceive(slot)
    \/ \E slot \in RemoveSlots : RemoveCheck(slot)
    \/ \E slot \in RemoveSlots : RemoveDelete(slot)
    \/ \E slot \in RemoveSlots : RemoveDeleteAll(slot)

SpecChats == InitChats /\ [][NextChats]_vars

\* what the process holds for chat c: its cached buffer, rules and memories
PartOf(c) ==
    LET OfChat(r) == r.chat_id = c IN
    <<getMessages(cache, c), SelectSeq(execsTable, OfChat),
      SelectSeq(memoriesTable, OfChat)>>

\* the step belongs to the handling of a message, command or tool call of
\* chat c
HandlesChat(c) ==
    \/ /\ lastOp' # lastOp
       /\ lastOp'.op \in {"addMessage", "clearChat"}
       /\ lastOp'.chatId = c
    \/ arpc' = "kv" /\ armsg'.chat = c
    \/ arpc \notin {"idle", "done"} /\ armsg.chat = c
    \/ \E slot \in RemoveSlots : rm[slot].pc \in {"delete", "deleteAll"} /\ rm[slot].chat = c
    \/ /\ Len(execsTable') > Len(execsTable)
       /\ execsTable'[Len(execsTable')].chat_id = c
    \/ /\ Len(memoriesTable') > Len(memoriesTable)
       /\ memoriesTable'[Len(memoriesTable')].chat_id = c

----------------------------------------------------------------------------
(* Claims about the snapshot computed after each event *)

\* the snapshot computed after the last event taken: the text the gate
\* looked at, or, after an abort, the text of the final delivery
SnapshotAfterEvent ==
    IF aborted THEN deliveries[Len(deliveries)].text ELSE textToSend

\* the trimmed reasoning buffer is non-empty, is not the sentinel, and
\* show_reasoning is on
ReasoningShown ==
    LET r == Trim(currentReasoning) IN
    r # <<>> /\ r # Redacted /\ show_reasoning

\* the trimmed reasoning as a quoted block: "> " in front of every line and
\* an empty line after it
Quoted == QuotePrefix \o ReplaceAllNewline(Trim(currentReasoning)) \o <<"\n", "\n">>

\* the argument buffer of the active tool as a fenced code block
Fenced ==
    FenceOpen
      \o (IF currentTool \in DOMAIN toolHistory THEN toolHistory[currentTool]
          ELSE UndefinedStr)
      \o FenceClose

\* the three parts one after the other
Composed ==
    (IF ReasoningShown THEN Quoted ELSE <<>>)
      \o currentText
      \o (IF currentTool # "" THEN Fenced ELSE <<>>)

\* a tool is active from its tool-input-start to the next tool-input-end
ToolActivity ==
    /\ ChunkToolInputStart => currentTool' # ""
    /\ ChunkToolInputEnd => currentTool' = ""
    /\ (\/ ChunkAbort \/ ChunkReasoningDelta \/ ChunkTextDelta
        \/ ChunkToolInputDelta \/ ChunkOther) => currentTool' = currentTool

\* C27 as stated: the snapshot after each event is the quoted reasoning (if
\* and only if the trimmed reasoning is non-empty, is not "[REDACTED]" and
\* show_reasoning is on), then the answer buffer, then the fenced argument
\* buffer of the active tool (if and only if a tool is active, that is,
\* between tool-input-start and tool-input-end).
C27_SnapshotIsComposition ==
    /\ [](consumed > 0 => SnapshotAfterEvent = Composed)
    /\ [][ToolActivity]_vars

\* C27 as amended: the snapshot after each event is that composition, except
\* that it is the placeholder "(...)" when the three parts are all empty.
C27_SnapshotIsCompositionOrPlaceholder ==
    /\ [](consumed > 0 =>
            SnapshotAfterEvent = IF Composed = <<>> THEN Placeholder ELSE Composed)
    /\ [][ToolActivity]_vars

\* all three parts are in the snapshot computed after the third event
C27_Witness ==
    /\ consumed = 3
    /\ ~aborted
    /\ ReasoningShown
    /\ currentTool # ""
    /\ toolHistory[currentTool] # <<>>
    /\ textToSend = Quoted \o currentText \o Fenced

\* C28: the snapshot computed after an event is at least as long as the one
\* computed after the event before it, and no delivered snapshot is shorter
\* than one delivered earlier.
C28_SnapshotsNeverShrink ==
    /\ [](\A i, j \in DOMAIN deliveries :
            i < j => Len(deliveries[i].text) <= Len(deliveries[j].text))
    /\ [][(consumed > 0 /\ consumed' = consumed + 1) =>
            Len(SnapshotAfterEvent') >= Len(SnapshotAfterEvent)]_vars

\* the onUpdate calls that have not settled yet
InFlight == {i \in DOMAIN deliveries : deliveries[i].result = "pending"}

\* C29: at most one onUpdate call is in flight at any time, no event is
\* consumed while one is in flight, and deliveries are made in the order of
\* the events that caused them: a call is made only when no call is in
\* flight, by the event just consumed or by the end of the stream, and it is
\* the latest delivery from then on.
C29_DeliveriesAreSequential ==
    /\ [](/\ Cardinality(InFlight) <= 1
          /\ InFlight \subseteq {Len(deliveries)})
    /\ [][/\ consumed' # consumed => InFlight = {}
          /\ Len(deliveries') # Len(deliveries) =>
               /\ InFlight = {}
               /\ SubSeq(deliveries', 1, Len(deliveries)) = deliveries
               /\ Len(deliveries') = Len(deliveries) + 1
               /\ consumed' = consumed + 1 \/ remaining = 0]_vars

\* a second call is in flight after the first one settled
C29_Witness ==
    /\ pc = "deliver"
    /\ consumed >= 2
    /\ Len(deliveries) = 2
    /\ deliveries[1].result = "ok"
    /\ InFlight = {2}
    /\ deliveries[1].at < deliveries[2].at

\* C30: the final delivery never carries the text of the most recent
\* non-final delivery.
C30_FinalDiffersFromLastNonFinal ==
    \A i \in Finals :
        PrevNonFinal(i) # 0 => deliveries[i].text # deliveries[PrevNonFinal(i)].text

\* the entries of the reply in the cache of the chat of the generation
AssistantEntries ==
    LET ByMe(m) == m.from_id = MeId IN
    Len(SelectSeq(getMessages(cache, StreamChat), ByMe))

\* the final edit of the response message has succeeded
FinalEditSucceeded ==
    /\ deliveries # <<>>
    /\ deliveries[Len(deliveries)].final
    /\ deliveries[Len(deliveries)].result = "ok"

\* C31: the reply is added to the cache of the chat at most once and only
\* after the final edit has succeeded; when the generation or the final
\* edit fails no entry is added.
C31_ReplyCachedOnlyOnSuccess ==
    /\ AssistantEntries <= 1
    /\ AssistantEntries = 1 => FinalEditSucceeded
    /\ (errorParts > 0 \/ pc = "thrown") => AssistantEntries = 0

----------------------------------------------------------------------------
(* Claims about the message handler *)

\* the context handler h passes to the generation service holds message m
InContext(h, m) ==
    \E i \in DOMAIN cachedMessages[h] : cachedMessages[h][i].message_id = m.message_id

\* C32: when a text message starts a generation and the window used is at
\* least 1, the context passed to the generation service holds that message,
\* whatever other messages of the chat were handled in between.
C32_ContextHoldsTrigger ==
    \A h \in Handlers :
        (hpc[h] = "stream" /\ message_window[h] >= 1) => InContext(h, hmsg[h])

\* C33: when chat_allow_list is configured and the chat of the message is
\* not in it, the handler calls the generation service neither for the
\* yes/no check nor for the reply, and sends nothing into the chat.
C33_AllowListBlocksGeneration ==
    \A h \in Handlers :
        (hpc[h] # "idle" /\ ~Allowed(hmsg[h].chat)) =>
            /\ hpc[h] \notin {"aicheck", "send", "memories", "prompt", "stream"}
            /\ apologies = 0

\* the text begins with the character "/"
IsCommandText(text) == Len(text) >= 1 /\ text[1] = "/"

\* C34: a message whose text starts with "/" is never added to the cache of
\* its chat and never starts a generation, so no command text is in the
\* context passed to the generation service.
C34_CommandsStayOut ==
    /\ \A c \in DOMAIN cache : \A i \in DOMAIN cache[c] :
         ~IsCommandText(cache[c][i].text)
    /\ \A h \in Handlers :
         /\ hpc[h] # "idle" => ~IsCommandText(TextOf(hmsg[h].kind))
         /\ \A i \in DOMAIN cachedMessages[h] :
              ~IsCommandText(cachedMessages[h][i].text)

\* message 1 was the command /setkv message_window 12, message 2 mentions the
\* bot: the context of its generation holds message 2 alone
C34_Witness ==
    /\ nextId = 3
    /\ config.max_message_window >= 2
    /\ 1 \in DOMAIN kv /\ kv[1] = <<"1", "2">>
    /\ \E h \in Handlers :
         /\ hpc[h] = "stream"
         /\ hmsg[h].message_id = 2
         /\ Len(cachedMessages[h]) = 1
         /\ cachedMessages[h][1].message_id = 2

----------------------------------------------------------------------------
(* Claims about the auto-reply switch and about unreadable rules *)

\* the key enable_auto_reply of the chat is set to a value other than "true"
SwitchedOff ==
    enable_auto_reply.defined /\ enable_auto_reply.value # <<"t", "r", "u", "e">>

----------------------------------------------------------------------------
(* The rules a database file already holds when the bot starts *)

MaxStored == 2          \* rows the execs table holds at the start

\* text that JSON.parse rejects: parseJSONSafe yields undefined and the schema
\* refuses it (part_008:3-22)
NotJsonValue == [raw |-> <<"{">>]
\* JSON of an object whose kind is not the literal "auto_reply"
\* (tools.ts:47-51)
WrongKindValue == [kind |-> "reply_after", when |-> "^hi$",
                   message |-> <<"n", "o">>]
StoredValues == {NotJsonValue, WrongKindValue, HelloRule}

\* data.sqlite outlives the process (tools.ts:68-76): the execs table starts
\* with the rows of RuleChat an earlier run, or an edit of the file, left
InitStored ==
    /\ \E values \in [1..MaxStored -> StoredValues] :
         execsTable = [i \in 1..MaxStored |->
                          [id |-> i, chat_id |-> RuleChat, value |-> values[i]]]
    /\ memoriesTable = <<>>
    /\ sqlite_sequence = [execs |-> MaxStored, memories |-> 0]
    /\ enable_auto_reply \in {NoRow, Row(<<"t", "r", "u", "e">>)}
    /\ arpc = "idle" /\ armsg = <<>> /\ execsArr = <<>> /\ ari = 0
    /\ replies = <<>> /\ incoming = 0
    /\ IdleStream /\ IdleOps /\ IdleHandler /\ IdleRemove
    /\ IdleTools /\ IdleBatch
    /\ cache = <<>> /\ maxWindow = MaxWin

\* auto_reply.execute while the table is below MaxStored + 1 rows
StoredExecute ==
    /\ sqlite_sequence.execs <= MaxStored
    /\ \E chatId \in {RuleChat, OtherChat}, ran \in BOOLEAN :
       \E input \in (IF chatId = RuleChat THEN {HelloRule, InvalidRule}
                                         ELSE {HelloRule}) :
         execsInsert(chatId, input, ran)
    /\ UNCHANGED <<memoriesTable, ruleVars, outsideRules>>

NextStored ==
    \/ StoredExecute
    \/ ARReceive
    \/ ARCheckEnabled
    \/ ARGetExecs
    \/ ARStep
    \/ ARLoopEnd
    \/ ARSendResolve
    \/ ARSendReject

SpecStored == InitStored /\ [][NextStored]_vars

\* the value is the JSON of an auto_reply object with a when and a message
IsStoredAutoReply(value) ==
    /\ DOMAIN value = {"kind", "when", "message"}
    /\ value.kind = "auto_reply"

\* the loop stands at a row that is not such a value
AtUnreadableRow ==
    /\ arpc = "loop" /\ ari <= Len(execsArr)
    /\ ~IsStoredAutoReply(execsArr[ari].data)

\* C36: a stored rule row whose value is not valid JSON or does not satisfy
\* the auto_reply schema is skipped during matching: no reply comes from it,
\* the handler never throws at it, the step that meets it moves on to the next
\* row with nothing sent, and a handler that returns has gone through every
\* row of the chat
C36_UnreadableRowsAreSkipped ==
    /\ [](/\ \A k \in DOMAIN replies :
               IsStoredAutoReply(execsArr[replies[k].rule].data)
          /\ arpc \in {"thrown", "send"} =>
               /\ ari \in DOMAIN execsArr
               /\ IsStoredAutoReply(execsArr[ari].data)
          /\ (arpc = "done" /\ execsArr # <<>>) => ari = Len(execsArr) + 1)
    /\ [][AtUnreadableRow =>
              \/ UNCHANGED <<arpc, ari, replies, execsArr>>
              \/ /\ arpc' = "loop" /\ ari' = ari + 1
                 /\ UNCHANGED <<replies, execsArr>>]_vars

\* both kinds of unreadable row stand before a rule that then replies
C36_Witness ==
    /\ arpc = "done"
    /\ Len(execsArr) = 3
    /\ execsArr[1].data = NotJsonValue
    /\ execsArr[2].data = WrongKindValue
    /\ Len(replies) = 1
    /\ replies[1].rule = 3
    /\ replies[1].result = "ok"

----------------------------------------------------------------------------
(* chat_kvs: setChatKV and getChatKV (kv/index.ts:5-38)                    *)

MaxKVCalls == 3         \* setChatKV calls made

KVChat == RuleChat
KVKeys == {"message_window", "enable_auto_reply"}
KVFrame == <<streamVars, cacheVars, opVars, handlerVars, tableVars, ruleVars,
             removeVars, toolVars, batchVars, upstreamVars, memories,
             context, cachedFn>>

\* the rows WHERE chat_id = chatId AND key = key
KVWhere(table, chatId, key) ==
    LET Hit(r) == r.chat_id = chatId /\ r.key = key IN SelectSeq(table, Hit)

\* getChatKV (kv/index.ts:15-21): res.at(0)?.value ?? null
getChatKV(table, chatId, key) ==
    LET res == KVWhere(table, chatId, key) IN
    IF res = <<>> THEN [null |-> TRUE] ELSE [null |-> FALSE, value |-> res[1].value]

\* DELETE FROM chat_kvs WHERE chat_id = chatId AND key = key
kvDeleteWhere(table, chatId, key) ==
    LET Keep(r) == ~(r.chat_id = chatId /\ r.key = key) IN SelectSeq(table, Keep)

\* the UNIQUE index idx_chat_kvs_chat_id_key (kv/index.ts:11) refuses a
\* second row of the same chat_id and key
UniqueRefuses(table, chatId, key) == KVWhere(table, chatId, key) # <<>>

\* setChatKV(chatId, key, value) is called and reaches its first await
\* (kv/index.ts:23-28); the value is the number of the call
SetChatKVCall ==
    /\ Len(kvCalls) < MaxKVCalls
    /\ \E key \in KVKeys :
         kvCalls' = Append(kvCalls, [pc |-> "delete", chat_id |-> KVChat,
                                     key |-> key, value |-> Len(kvCalls) + 1])
    /\ UNCHANGED <<chatKVs, KVFrame>>

\* the awaited deleteWhere runs (kv/index.ts:28)
KVDelete(n) ==
    /\ kvCalls[n].pc = "delete"
    /\ chatKVs' = kvDeleteWhere(chatKVs, kvCalls[n].chat_id, kvCalls[n].key)
    /\ kvCalls' = [kvCalls EXCEPT ![n].pc = "insert"]
    /\ UNCHANGED KVFrame

\* the awaited insert runs (kv/index.ts:29-33): the row is stored and the
\* call returns, or the index refuses it and the call rejects
KVInsert(n) ==
    /\ kvCalls[n].pc = "insert"
    /\ IF UniqueRefuses(chatKVs, kvCalls[n].chat_id, kvCalls[n].key)
       THEN /\ kvCalls' = [kvCalls EXCEPT ![n].pc = "rejected"]
            /\ UNCHANGED chatKVs
       ELSE /\ chatKVs' = Append(chatKVs, [chat_id |-> kvCalls[n].chat_id,
                                           key |-> kvCalls[n].key,
                                           value |-> kvCalls[n].value])
            /\ kvCalls' = [kvCalls EXCEPT ![n].pc = "returned"]
    /\ UNCHANGED KVFrame

\* the table holds no row, or the row an earlier /setkv left
InitKV ==
    /\ chatKVs \in {<<>>, <<[chat_id |-> KVChat, key |-> "message_window",
                             value |-> 0]>>}
    /\ kvCalls = <<>>
    /\ IdleLocals /\ IdleContext /\ IdleCached
    /\ IdleOps /\ IdleHandler /\ IdleExt
    /\ cache = <<>> /\ maxWindow = MaxWin

NextKV ==
    \/ SetChatKVCall
    \/ \E n \in DOMAIN kvCalls : KVDelete(n)
    \/ \E n \in DOMAIN kvCalls : KVInsert(n)

SpecKV == InitKV /\ [][NextKV]_vars

\* the calls on a key, and those between their call and their return
CallsOn(key) == {n \in DOMAIN kvCalls : kvCalls[n].key = key}
Writing(key) == {n \in CallsOn(key) : kvCalls[n].pc \in {"delete", "insert"}}

\* C37: under any interleaving of setChatKV calls on the same chat and key,
\* no call ends in an error; once no call on the key is in flight, exactly
\* one row exists for it and holds the value one of the calls wrote; and a
\* call that returns while no other call on the key is in flight leaves its
\* value as what getChatKV returns
C37_SetChatKVInterleaves ==
    /\ [](\A n \in DOMAIN kvCalls : kvCalls[n].pc # "rejected")
    /\ [](\A key \in KVKeys :
            (CallsOn(key) # {} /\ Writing(key) = {}) =>
                /\ Len(KVWhere(chatKVs, KVChat, key)) = 1
                /\ \E n \in CallsOn(key) :
                      KVWhere(chatKVs, KVChat, key)[1].value = kvCalls[n].value)
    /\ [][\A n \in DOMAIN kvCalls :
             (/\ kvCalls[n].pc = "insert"
              /\ kvCalls'[n].pc = "returned"
              /\ Writing(kvCalls[n].key) = {n}) =>
                 getChatKV(chatKVs', KVChat, kvCalls[n].key) =
                     [null |-> FALSE, value |-> kvCalls[n].value]]_vars

----------------------------------------------------------------------------
(* Context: use and freeze (bot-proxy.ts:15-92)                            *)

MaxUses == 3            \* calls of use()

PluginNames == {"Help", "ChatKv", "Ai"}
ContextFrame == <<streamVars, cacheVars, opVars, handlerVars, tableVars,
                  ruleVars, removeVars, toolVars, batchVars, upstreamVars,
                  memories, chatKVs, kvCalls, cachedFn>>

\* new Context(me, bot, config) (bot-proxy.ts:15-24): the fields, then the
\* locals of freeze and the calls seen from outside
NewContext ==
    [plugins |-> <<>>, frozen |-> FALSE, commands |-> <<>>,
     pc |-> "open", i |-> 0, successful |-> <<>>, failed |-> <<>>,
     started |-> <<>>, setMyCommands |-> <<>>, uses |-> 0, useThrew |-> 0]

\* use(plugin) (bot-proxy.ts:47-53)
Use ==
    /\ context.uses < MaxUses
    /\ \E plugin \in PluginNames :
         IF context.frozen
         THEN context' = [context EXCEPT !.uses = @ + 1, !.useThrew = @ + 1]
         ELSE context' = [context EXCEPT !.uses = @ + 1,
                                         !.plugins = Append(@, plugin)]
    /\ UNCHANGED ContextFrame

\* freeze() is called and reaches the loop (bot-proxy.ts:63-68)
Freeze ==
    /\ context.pc = "open"
    /\ context' = [context EXCEPT !.frozen = TRUE, !.pc = "loop", !.i = 1]
    /\ UNCHANGED ContextFrame

\* a slip without the try around the call: a plugin that throws ends freeze
PluginCallUncaught ==
    /\ context.pc = "loop"
    /\ context.i <= Len(context.plugins)
    /\ LET plugin == context.plugins[context.i] IN
       \E registers \in BOOLEAN, outcome \in {"throws", "awaits"} :
         LET began == [context EXCEPT
                          !.started = Append(@, plugin),
                          !.commands = IF registers THEN Append(@, plugin)
                                                    ELSE @]
         IN context' =
              IF outcome = "throws"
              THEN [began EXCEPT !.failed = Append(@, plugin),
                                 !.pc = "rejected"]
              ELSE [began EXCEPT !.pc = "await"]
    /\ UNCHANGED ContextFrame

\* one turn of the loop up to its await (bot-proxy.ts:68-72): plugin(this)
\* runs, perhaps registers a command, and throws or hands back a promise
PluginCall ==
    /\ context.pc = "loop"
    /\ context.i <= Len(context.plugins)
    /\ LET plugin == context.plugins[context.i] IN
       \E registers \in BOOLEAN, outcome \in {"throws", "awaits"} :
         LET began == [context EXCEPT
                          !.started = Append(@, plugin),
                          !.commands = IF registers THEN Append(@, plugin)
                                                    ELSE @]
         IN context' =
              IF outcome = "throws"
              THEN [began EXCEPT !.failed = Append(@, plugin),
                                 !.i = @ + 1]
              ELSE [began EXCEPT !.pc = "await"]
    /\ UNCHANGED ContextFrame

\* the awaited plugin settles (bot-proxy.ts:72-80)
PluginSettle ==
    /\ context.pc = "await"
    /\ LET plugin == context.plugins[context.i] IN
       \E resolves \in BOOLEAN :
         context' = IF resolves
                    THEN [context EXCEPT !.successful = Append(@, plugin),
                                         !.i = @ + 1, !.pc = "loop"]
                    ELSE [context EXCEPT !.failed = Append(@, plugin),
                                         !.i = @ + 1, !.pc = "loop"]
    /\ UNCHANGED ContextFrame

\* the loop is over: bot.setMyCommands(this.commands) (bot-proxy.ts:91)
SetMyCommands ==
    /\ context.pc = "loop"
    /\ context.i > Len(context.plugins)
    /\ context' = [context EXCEPT !.setMyCommands = Append(@, context.commands),
                                  !.pc = "commands"]
    /\ UNCHANGED ContextFrame

\* the awaited setMyCommands settles: freeze returns or rejects
FreezeSettle ==
    /\ context.pc = "commands"
    /\ \E resolves \in BOOLEAN :
         context' = [context EXCEPT !.pc = IF resolves THEN "returned"
                                                       ELSE "rejected"]
    /\ UNCHANGED ContextFrame

InitContext ==
    /\ context = NewContext
    /\ IdleLocals /\ IdleKV /\ IdleCached
    /\ IdleOps /\ IdleHandler /\ IdleExt
    /\ cache = <<>> /\ maxWindow = MaxWin

NextContext ==
    \/ Use
    \/ Freeze
    \/ PluginCall
    \/ PluginSettle
    \/ SetMyCommands
    \/ FreezeSettle

SpecContext == InitContext /\ [][NextContext]_vars

\* the plugins whose call has ended, in the order they ended
Attempted == Len(context.successful) + Len(context.failed)

\* C38: freeze loads the plugins one at a time in registration order; a
\* plugin that throws is recorded as failed and the later plugins are still
\* loaded; setMyCommands is called exactly once, after every plugin has been
\* attempted; once frozen, use() throws and the plugin list stays as it is
C38_FreezeLoadsEveryPlugin ==
    /\ [](/\ context.started =
                SubSeq(context.plugins, 1, Len(context.started))
          /\ Len(context.started) - Attempted \in {0, 1}
          /\ Len(context.started) - Attempted = 1 <=> context.pc = "await"
          /\ Len(context.setMyCommands) <= 1
          /\ context.setMyCommands # <<>> =>
                /\ Attempted = Len(context.plugins)
                /\ context.setMyCommands[1] = context.commands
          /\ context.pc \in {"returned", "rejected"} =>
                Len(context.setMyCommands) = 1
          /\ ~context.frozen => context.useThrew = 0)
    /\ [][/\ context.frozen =>
               /\ context'.plugins = context.plugins
               /\ (context'.uses = context.uses + 1 =>
                     context'.useThrew = context.useThrew + 1)
          /\ Len(context'.failed) > Len(context.failed) =>
                /\ context'.failed =
                      Append(context.failed, context.plugins[context.i])
                /\ context'.pc = "loop" /\ context'.i = context.i + 1]_vars

\* the first of two plugins failed, the second loaded, the commands were
\* pushed, and a later use() threw
C38_Witness ==
    /\ context.pc = "returned"
    /\ Len(context.plugins) = 2
    /\ Len(context.failed) = 1
    /\ context.failed[1] = context.plugins[1]
    /\ context.successful = <<context.plugins[2]>>
    /\ Len(context.setMyCommands) = 1
    /\ context.useThrew = 1

----------------------------------------------------------------------------
(* cached: get and invalidate (cache.ts:5-33)                              *)

MaxGets == 3            \* calls of get()
MaxInvalidates == 2     \* calls of invalidate() from outside
MaxCachedClock == 3     \* Date.now() goes from 0 to this
TtlTicks == 2           \* opts.ttlMs

CachedFrame == <<streamVars, cacheVars, opVars, handlerVars, tableVars,
                 ruleVars, removeVars, toolVars, batchVars, upstreamVars,
                 memories, chatKVs, kvCalls, context>>

NullCache == [null |-> TRUE]

\* cached(fn, opts) (cache.ts:5-8): cache and timeoutId are null; then the
\* timers of setTimeout, the get calls, the fetches fn has started, the
\* number of those started when invalidate last returned, and Date.now()
NewCached ==
    [cache |-> NullCache, timeoutId |-> 0, timers |-> {}, nextTimer |-> 1,
     calls |-> <<>>, fetches |-> 0, outdated |-> 0, invalidates |-> 0,
     now |-> 0]

\* invalidate() (cache.ts:10-16)
invalidate(c) ==
    [c EXCEPT !.cache = NullCache,
              !.timers = {t \in @ : t.id # c.timeoutId},
              !.timeoutId = 0,
              !.outdated = c.fetches]

\* cache && now - cache.time < ttlMs (cache.ts:20)
Fresh(c) == ~c.cache.null /\ c.now - c.cache.time < TtlTicks

\* get() up to its return or its await (cache.ts:18-23): the value fn yields
\* is named by the number of the fetch
GetCall ==
    /\ Len(cachedFn.calls) < MaxGets
    /\ cachedFn' =
         IF Fresh(cachedFn)
         THEN [cachedFn EXCEPT
                 !.calls = Append(@, [pc |-> "returned", hit |-> TRUE,
                                      now |-> cachedFn.now,
                                      fetch |-> cachedFn.cache.value,
                                      outdated |-> cachedFn.outdated])]
         ELSE [cachedFn EXCEPT
                 !.fetches = @ + 1,
                 !.calls = Append(@, [pc |-> "await", hit |-> FALSE,
                                      now |-> cachedFn.now,
                                      fetch |-> cachedFn.fetches + 1,
                                      outdated |-> cachedFn.outdated])]
    /\ UNCHANGED CachedFrame

\* the awaited fn() resolves (cache.ts:23-26)
FetchResolve(n) ==
    /\ cachedFn.calls[n].pc = "await"
    /\ cachedFn' =
         [cachedFn EXCEPT
            !.cache = [null |-> FALSE, time |-> cachedFn.calls[n].now,
                       value |-> cachedFn.calls[n].fetch],
            !.timers = @ \cup {[id |-> cachedFn.nextTimer,
                                due |-> cachedFn.now + TtlTicks]},
            !.timeoutId = cachedFn.nextTimer,
            !.nextTimer = @ + 1,
            !.calls[n].pc = "returned"]
    /\ UNCHANGED CachedFrame

\* the awaited fn() rejects: get rejects with it (cache.ts:23)
FetchReject(n) ==
    /\ cachedFn.calls[n].pc = "await"
    /\ cachedFn' = [cachedFn EXCEPT !.calls[n].pc = "rejected"]
    /\ UNCHANGED CachedFrame

\* invalidate() is called from outside
Invalidate ==
    /\ cachedFn.invalidates < MaxInvalidates
    /\ cachedFn' = [invalidate(cachedFn) EXCEPT !.invalidates = @ + 1]
    /\ UNCHANGED CachedFrame

\* a timer of cache.ts:25 is due and calls invalidate
TimerFire ==
    /\ \E t \in cachedFn.timers :
         /\ t.due <= cachedFn.now
         /\ cachedFn' = invalidate([cachedFn EXCEPT !.timers = @ \ {t}])
    /\ UNCHANGED CachedFrame

\* time passes, once the timers that are due have run
CachedTick ==
    /\ cachedFn.now < MaxCachedClock
    /\ \A t \in cachedFn.timers : t.due > cachedFn.now
    /\ cachedFn' = [cachedFn EXCEPT !.now = @ + 1]
    /\ UNCHANGED CachedFrame

InitCached ==
    /\ cachedFn = NewCached
    /\ IdleLocals /\ IdleKV /\ IdleContext
    /\ IdleOps /\ IdleHandler /\ IdleExt
    /\ cache = <<>> /\ maxWindow = MaxWin

NextCached ==
    \/ GetCall
    \/ \E n \in DOMAIN cachedFn.calls : FetchResolve(n)
    \/ \E n \in DOMAIN cachedFn.calls : FetchReject(n)
    \/ Invalidate
    \/ TimerFire
    \/ CachedTick

SpecCached == InitCached /\ [][NextCached]_vars

\* C39: once invalidate() has returned, no later get() returns a value
\* whose fetch started before that invalidate, also when the invalidate
\* came while a get() was awaiting fn; and a fetch that started earlier
\* never overwrites the value a fetch that started later has stored
C39_InvalidateOutdatesFetches ==
    /\ [](\A n \in DOMAIN cachedFn.calls :
            cachedFn.calls[n].pc = "returned" =>
                cachedFn.calls[n].fetch > cachedFn.calls[n].outdated)
    /\ [][(~cachedFn.cache.null /\ ~cachedFn'.cache.null) =>
              cachedFn'.cache.value >= cachedFn.cache.value]_vars

====
